---- MODULE Spec2Model ----
(***************************************************************************)
(* Model of the metadata / waveform cache pipeline of SaioMusic            *)
(* (src/saio_music/ui/main_window.py, class MainWindow).                    *)
(*                                                                         *)
(* Python values are tagged records [kind, val]:                            *)
(*   None   [kind |-> "None",  val |-> <<>>]                                *)
(*   str    [kind |-> "str",   val |-> sequence of characters]              *)
(*   bytes  [kind |-> "bytes", val |-> sequence of byte names]              *)
(*   int    [kind |-> "int",   val |-> <<n>>]                               *)
(*   list   [kind |-> "list",  val |-> sequence of values]                  *)
(*   tuple  [kind |-> "tuple", val |-> sequence of values]                  *)
(***************************************************************************)
EXTENDS Integers, Sequences, FiniteSets, TLC

\* ------------------------------------------------------------------------
\* Bounds
\* ------------------------------------------------------------------------
MaxLen == 2

\* ------------------------------------------------------------------------
\* Python values
\* ------------------------------------------------------------------------
PyNone == [kind |-> "None", val |-> <<>>]

PyStr(s) == [kind |-> "str", val |-> s]

PyBytes(b) == [kind |-> "bytes", val |-> b]

PyInt(n) == [kind |-> "int", val |-> <<n>>]

PyList(xs) == [kind |-> "list", val |-> xs]

PyTuple(xs) == [kind |-> "tuple", val |-> xs]

\* characters of the model alphabet; " " and "\t" are whitespace
Chars == {" ", "a", "\t"}

\* bytes of the model alphabet: 0x20 (space), 0x61 ('a'), 0xFF (never valid UTF-8)
Bytes == {"x20", "x61", "xFF"}

IsSpace(c) == c \in {" ", "\t"}

SeqsUpTo(S, n) == UNION {[1..k -> S] : k \in 0..n}

\* str.strip(): drop leading and trailing whitespace
RECURSIVE LStrip(_)
LStrip(s) == IF s = <<>> THEN s
             ELSE IF IsSpace(Head(s)) THEN LStrip(Tail(s)) ELSE s

RECURSIVE RStrip(_)
RStrip(s) == IF s = <<>> THEN s
             ELSE IF IsSpace(s[Len(s)]) THEN RStrip(SubSeq(s, 1, Len(s) - 1)) ELSE s

Strip(s) == RStrip(LStrip(s))

\* bytes.decode("utf-8", errors="ignore"): undecodable bytes are dropped
ByteChar(b) == IF b = "x20" THEN " " ELSE "a"

RECURSIVE Decode(_)
Decode(b) == IF b = <<>> THEN <<>>
             ELSE IF Head(b) = "xFF" THEN Decode(Tail(b))
             ELSE <<ByteChar(Head(b))>> \o Decode(Tail(b))

\* decimal digits of a natural number
RECURSIVE Digits(_)
Digits(n) == IF n < 10 THEN <<CHOOSE d \in {"0","1","2","3","4","5","6","7","8","9"} :
                                 d = ToString(n)>>
             ELSE Digits(n \div 10) \o Digits(n % 10)

\* str(value) of Python, repr() for the elements of a container
RECURSIVE Repr(_)
RECURSIVE ReprAll(_)
Repr(v) == CASE v.kind = "None" -> <<"N", "o", "n", "e">>
             [] v.kind = "str" -> <<"'">> \o v.val \o <<"'">>
             [] v.kind = "bytes" -> <<"b", "'">> \o Decode(v.val) \o <<"'">>
             [] v.kind = "int" -> Digits(v.val[1])
             [] v.kind = "list" -> <<"[">> \o ReprAll(v.val) \o <<"]">>
             [] v.kind = "tuple" -> <<"(">> \o ReprAll(v.val) \o <<")">>

ReprAll(xs) == IF xs = <<>> THEN <<>>
               ELSE IF Len(xs) = 1 THEN Repr(xs[1])
               ELSE Repr(xs[1]) \o <<",", " ">> \o ReprAll(Tail(xs))

StrOf(v) == IF v.kind = "str" THEN v.val ELSE Repr(v)

\* truth value of a Python object (the "not value" / "x or None" tests)
Truthy(v) == CASE v.kind = "None" -> FALSE
               [] v.kind = "int" -> v.val[1] # 0
               [] OTHER -> v.val # <<>>

IsSeqKind(v) == v.kind \in {"list", "tuple"}

\* "s or None" for a str s
OrNone(s) == IF s = <<>> THEN PyNone ELSE PyStr(s)

\* ------------------------------------------------------------------------
\* MainWindow._coerce_text
\* ------------------------------------------------------------------------
coerce_text_nostrip(value) ==
    IF value.kind = "None" THEN PyNone
    ELSE IF IsSeqKind(value) /\ value.val = <<>> THEN PyNone
    ELSE LET v == IF IsSeqKind(value) THEN value.val[1] ELSE value
         IN IF v.kind = "bytes" THEN OrNone(Decode(v.val))
            ELSE OrNone(StrOf(v))

coerce_text(value) ==
    IF value.kind = "None" THEN PyNone
    ELSE IF IsSeqKind(value) /\ value.val = <<>> THEN PyNone
    ELSE LET v == IF IsSeqKind(value) THEN value.val[1] ELSE value
         IN IF v.kind = "bytes" THEN OrNone(Strip(Decode(v.val)))
            ELSE OrNone(Strip(StrOf(v)))

\* ------------------------------------------------------------------------
\* Exceptions: a call that raises yields [kind |-> "raise", val |-> <<name>>]
\* ------------------------------------------------------------------------
Raise(name) == [kind |-> "raise", val |-> <<name>>]

Raised(r) == r.kind = "raise"

\* ------------------------------------------------------------------------
\* What mutagen returns for a file.  MutagenFile(path, ...) raises
\* (open = "raises"), returns None (open = "none") or returns a container
\* (open = "ok") whose attribute "tags" is absent, None or a dict-like
\* object.  tags is the ordered sequence of its (key, value) items; getall
\* tells whether the tags object has the ID3 accessor getall(); pictures is
\* the container's "pictures" attribute (a list of picture payloads).
\* A frame object is [kind |-> "APIC", val |-> <<data>>] (attribute .data)
\* or [kind |-> "COMM", val |-> <<text>>] (attribute .text).
\* ------------------------------------------------------------------------
Item(k, v) == [k |-> k, v |-> v]

Audio(open, tagsAttr, tags, getall, pictures) ==
    [open |-> open, tagsAttr |-> tagsAttr, tags |-> tags,
     getall |-> getall, pictures |-> pictures]

AudioRaises == Audio("raises", "absent", <<>>, FALSE, <<>>)

AudioNone == Audio("none", "absent", <<>>, FALSE, <<>>)

\* keys with the prefix "COMM" / "APIC" (str(key).startswith(...))
CommKeys == {"COMM::eng", "COMMENT"}

ApicKeys == {"APIC:", "APIC:cover"}

\* tags.get(key) / tags[key] / key in tags
RECURSIVE TagsGet(_, _)
TagsGet(tags, key) == IF tags = <<>> THEN PyNone
                      ELSE IF Head(tags).k = key THEN Head(tags).v
                      ELSE TagsGet(Tail(tags), key)

TagsHas(tags, key) == \E i \in 1..Len(tags) : tags[i].k = key

IsFrame(v, kind) == v.kind = kind

\* ------------------------------------------------------------------------
\* MainWindow._first_tag
\* ------------------------------------------------------------------------
RECURSIVE first_tag_loop(_, _)
first_tag_loop(tags, keys) ==
    IF keys = <<>> THEN PyNone
    ELSE LET value == TagsGet(tags, Head(keys))
         IN IF ~Truthy(value) THEN first_tag_loop(tags, Tail(keys))
            ELSE IF IsSeqKind(value) THEN PyStr(StrOf(value.val[1]))
            ELSE PyStr(StrOf(value))

first_tag(audio, keys) ==
    IF audio.tagsAttr = "absent" THEN PyNone            \* getattr default {}
    ELSE IF audio.tagsAttr = "None" THEN Raise("AttributeError")  \* None.get
    ELSE first_tag_loop(audio.tags, keys)

\* ------------------------------------------------------------------------
\* MainWindow._extract_comment
\* ------------------------------------------------------------------------
RECURSIVE comment_by_key(_, _)
comment_by_key(tags, keys) ==
    IF keys = <<>> THEN PyNone
    ELSE LET comment == coerce_text(TagsGet(tags, Head(keys)))
         IN IF Truthy(comment) THEN comment ELSE comment_by_key(tags, Tail(keys))

RECURSIVE comment_by_frame(_)
comment_by_frame(items) ==
    IF items = <<>> THEN PyNone
    ELSE LET frame == Head(items).v
             text == IF IsFrame(frame, "COMM") THEN frame.val[1] ELSE PyNone
         IN IF Head(items).k \in CommKeys /\ Truthy(text)
            THEN PyStr(StrOf(text.val[1]))
            ELSE comment_by_frame(Tail(items))

extract_comment(audio) ==
    IF audio.tagsAttr # "dict" THEN PyNone
    ELSE LET c == comment_by_key(audio.tags, <<"comment", "comments", "COMMENT", "\\xa9cmt">>)
         IN IF Truthy(c) THEN c ELSE comment_by_frame(audio.tags)

\* ------------------------------------------------------------------------
\* Images and base64.  An image payload is a bytes value whose val is
\* <<format, picture>>; anything else is not decodable as an image.
\* A base64 text is the str value <<"b64">> \o payload.
\* ------------------------------------------------------------------------
Pictures == {"pic1", "pic2"}

ImageBytes(fmt, pic) == PyBytes(<<fmt, pic>>)

IsImage(b) == /\ b.kind = "bytes"
              /\ Len(b.val) = 2
              /\ b.val[1] \in {"jpeg", "png60"}
              /\ b.val[2] \in Pictures

\* QImage.scaled(60, 60, KeepAspectRatio) saved as PNG
Thumbnail(b) == ImageBytes("png60", b.val[2])

B64Encode(b) == PyStr(<<"b64">> \o b.val)

\* base64.b64decode(str): bytes, or a raise on malformed text
B64Decode(s) == IF s.val = <<>> THEN PyBytes(<<>>)
                ELSE IF Head(s.val) = "b64" THEN PyBytes(Tail(s.val))
                ELSE Raise("binascii.Error")

\* MainWindow._encode_cover_thumbnail
encode_cover_thumbnail(cover_data) ==
    IF ~IsImage(cover_data) THEN PyNone      \* image.isNull()
    ELSE B64Encode(Thumbnail(cover_data))

\* MainWindow._coerce_bytes
coerce_bytes(value) ==
    IF value.kind = "bytes" THEN value
    ELSE IF value.kind = "str"
         THEN (IF Raised(B64Decode(value)) THEN PyNone ELSE B64Decode(value))
    ELSE PyNone

\* ------------------------------------------------------------------------
\* MainWindow._extract_cover
\* ------------------------------------------------------------------------
ApicFrames(tags) == SelectSeq(tags, LAMBDA it : it.k \in ApicKeys)

RECURSIVE cover_by_frame(_)
cover_by_frame(items) ==
    IF items = <<>> THEN PyNone
    ELSE LET frame == Head(items).v
             data == IF IsFrame(frame, "APIC") THEN frame.val[1] ELSE PyNone
         IN IF Head(items).k \in ApicKeys /\ data.kind = "bytes"
            THEN data
            ELSE cover_by_frame(Tail(items))

\* bytes(covr[0]) with except (IndexError, TypeError): return None
\* (bytes(n) of an int n is a run of zero bytes, not an image)
cover_from_covr(covr) ==
    IF ~IsSeqKind(covr) THEN PyNone
    ELSE IF covr.val[1].kind = "bytes" THEN covr.val[1]
    ELSE IF covr.val[1].kind = "int" THEN PyBytes([i \in 1..covr.val[1].val[1] |-> "x00"])
    ELSE PyNone

RECURSIVE cover_from_block(_, _)
cover_from_block(tags, keys) ==
    IF keys = <<>> THEN PyNone
    ELSE IF ~TagsHas(tags, Head(keys)) THEN cover_from_block(tags, Tail(keys))
    ELSE LET value == TagsGet(tags, Head(keys))
         IN IF IsSeqKind(value) /\ value.val # <<>> THEN coerce_bytes(value.val[1])
            ELSE IF value.kind = "bytes" THEN value
            ELSE cover_from_block(tags, Tail(keys))

extract_cover(audio) ==
    IF audio.open # "ok" THEN PyNone
    ELSE IF audio.tagsAttr # "dict" THEN PyNone
    ELSE IF audio.getall /\ ApicFrames(audio.tags) # <<>>
         THEN ApicFrames(audio.tags)[1].v.val[1]
    ELSE IF cover_by_frame(audio.tags) # PyNone THEN cover_by_frame(audio.tags)
    ELSE IF audio.pictures # <<>> THEN audio.pictures[1]
    ELSE IF Truthy(TagsGet(audio.tags, "covr"))
         THEN cover_from_covr(TagsGet(audio.tags, "covr"))
    ELSE cover_from_block(audio.tags, <<"metadata_block_picture", "METADATA_BLOCK_PICTURE">>)

\* ------------------------------------------------------------------------
\* Files.  The content of a file is what the decoders make of it: the
\* container of the easy view (MutagenFile(path, easy=True)), the container
\* of the raw view (MutagenFile(path)) and the envelope _build_waveform
\* computes from its samples (empty when no decoder can read it).
\* ------------------------------------------------------------------------
Txt(s) == PyStr(s)

L1(v) == PyList(<<v>>)

PyFloat(n) == [kind |-> "float", val |-> <<n>>]

Envelope(xs) == PyList([i \in 1..Len(xs) |-> PyFloat(xs[i])])

ApicFrame(data) == [kind |-> "APIC", val |-> <<data>>]

CommFrame(text) == [kind |-> "COMM", val |-> <<text>>]

Content(easy, full, wave) == [easy |-> easy, full |-> full, wave |-> wave]

\* an ID3 file: aliases in the easy view, COMM and APIC frames in the raw view
FileId3 ==
    Content(Audio("ok", "dict",
                  <<Item("artist", L1(Txt(<<"a">>))),
                    Item("title", L1(Txt(<<"a", " ", "a">>))),
                    Item("organization", L1(Txt(<<"a">>))),
                    Item("genre", L1(Txt(<<"a">>))),
                    Item("bpm", L1(Txt(<<"1", "2">>)))>>, FALSE, <<>>),
            Audio("ok", "dict",
                  <<Item("COMM::eng", CommFrame(L1(Txt(<<"7", "a">>)))),
                    Item("APIC:", ApicFrame(ImageBytes("jpeg", "pic1")))>>, TRUE, <<>>),
            Envelope(<<10, 4>>))

\* an MP4 file: no genre, comment in the vendor atom, cover in the covr atom
FileMp4 ==
    Content(Audio("ok", "dict",
                  <<Item("artist", L1(Txt(<<"a", "a">>))),
                    Item("title", L1(Txt(<<"a">>))),
                    Item("genre", PyList(<<>>))>>, FALSE, <<>>),
            Audio("ok", "dict",
                  <<Item("\\xa9cmt", L1(Txt(<<"a", "a">>))),
                    Item("covr", L1(ImageBytes("jpeg", "pic2")))>>, FALSE, <<>>),
            Envelope(<<3, 10>>))

\* a Vorbis file: padded and empty tag values, a picture that is not an image
FilePadded ==
    Content(Audio("ok", "dict",
                  <<Item("artist", L1(Txt(<<" ", "a">>))),
                    Item("title", L1(Txt(<<>>))),
                    Item("genre", L1(Txt(<<" ">>))),
                    Item("comment", L1(Txt(<<"a", " ">>)))>>, FALSE, <<>>),
            Audio("ok", "dict",
                  <<Item("artist", L1(Txt(<<" ", "a">>))),
                    Item("comment", L1(Txt(<<"a", " ">>)))>>, FALSE,
                  <<PyBytes(<<"x00", "x00">>)>>),
            Envelope(<<>>))

\* a file without a tag header: mutagen returns a container whose tags is None
FileUntagged ==
    Content(Audio("ok", "None", <<>>, FALSE, <<>>),
            Audio("ok", "None", <<>>, FALSE, <<>>),
            Envelope(<<7>>))

\* a container object that has no tags attribute at all
FileNoTagsAttr ==
    Content(Audio("ok", "absent", <<>>, FALSE, <<>>),
            Audio("ok", "absent", <<>>, FALSE, <<>>),
            Envelope(<<>>))

\* a corrupt file: every open raises
FileCorrupt == Content(AudioRaises, AudioRaises, Envelope(<<>>))

\* a format mutagen does not recognise: every open returns None
FileUnknown == Content(AudioNone, AudioNone, Envelope(<<>>))

Contents == <<FileId3, FileMp4, FilePadded, FileUntagged, FileNoTagsAttr,
              FileCorrupt, FileUnknown>>

ContentIds == 1..Len(Contents)

\* the files of the user's library in the cache scenarios: the first four
LibraryIds == 1..4

\* ------------------------------------------------------------------------
\* MainWindow._read_audio_samples
\* ------------------------------------------------------------------------
MaxFrames == 4

MaxBars == 3

\* sample values: a negative amplitude, silence, a positive amplitude
Amplitudes == {-2, 0, 1}

UpperCase == <<"A", "B", "C", "D", "E", "F", "G", "H", "I", "J", "K", "L", "M",
               "N", "O", "P", "Q", "R", "S", "T", "U", "V", "W", "X", "Y", "Z">>

LowerCase == <<"a", "b", "c", "d", "e", "f", "g", "h", "i", "j", "k", "l", "m",
               "n", "o", "p", "q", "r", "s", "t", "u", "v", "w", "x", "y", "z">>

\* str.lower() and str.upper() on a sequence of characters
Lower(s) == [i \in 1..Len(s) |->
                IF \E k \in 1..26 : UpperCase[k] = s[i]
                THEN LowerCase[CHOOSE k \in 1..26 : UpperCase[k] = s[i]] ELSE s[i]]

Upper(s) == [i \in 1..Len(s) |->
                IF \E k \in 1..26 : LowerCase[k] = s[i]
                THEN UpperCase[CHOOSE k \in 1..26 : LowerCase[k] = s[i]] ELSE s[i]]

\* an audio file and the decoders of the installation.
\*   numpy: the import succeeds
\*   sf:    soundfile is "absent" (import fails), "raises" on this file, or "ok"
\*   wav:   the wave module "raises" on this file, reads a sample width other
\*          than 1, 2 and 4 ("width3"), or is "ok"
\*   pydub: "absent", "raises", reports a sample width of 0 ("width0"), or "ok"
\*   pcm:   the frames of the file, one channel.  The decoders scale them by
\*          different positive constants, which the normalised envelope
\*          does not depend on, so the model keeps the unscaled integers.
AudioFile(suffix, numpy, sf, wav, pydub, pcm) ==
    [suffix |-> suffix, numpy |-> numpy, sf |-> sf, wav |-> wav, pydub |-> pydub,
     pcm |-> pcm]

NoFile == AudioFile(<<>>, TRUE, "absent", "raises", "absent", <<>>)

NdArray(frames) == [kind |-> "ndarray", val |-> frames]

read_audio_samples(file) ==
    IF ~file.numpy THEN PyNone
    ELSE IF file.sf = "ok" THEN NdArray(file.pcm)
    ELSE IF Lower(file.suffix) = <<".", "w", "a", "v">>
         THEN IF file.wav = "ok" THEN NdArray(file.pcm) ELSE PyNone
    ELSE IF file.pydub = "ok" THEN NdArray(file.pcm)
    ELSE PyNone

\* ------------------------------------------------------------------------
\* MainWindow._build_waveform
\* ------------------------------------------------------------------------
\* hop = max(1, total // target_bars)
hop(total, target_bars) ==
    IF total \div target_bars > 1 THEN total \div target_bars ELSE 1

\* mono[start : start + hop], start counted from 0
chunk(mono, start, h) ==
    SubSeq(mono, start + 1, IF start + h < Len(mono) THEN start + h ELSE Len(mono))

RECURSIVE SumSq(_)
SumSq(c) == IF c = <<>> THEN 0 ELSE Head(c) * Head(c) + SumSq(Tail(c))

\* sqrt(mean(chunk ** 2)), kept exact: the record stands for sqrt(num / den)
rms(c) == [num |-> SumSq(c), den |-> Len(c)]

\* a <= b for two such values with positive denominators
Leq(a, b) == a.num * b.den <= b.num * a.den

\* value / max_value
Quotient(value, m) == [num |-> value.num * m.den, den |-> value.den * m.num]

max_value_first(samples) == Head(samples)

\* max(samples): the first of the greatest elements
max_value(samples) ==
    samples[CHOOSE i \in 1..Len(samples) :
                /\ \A j \in 1..Len(samples) : Leq(samples[j], samples[i])
                /\ \A j \in 1..(i - 1) : ~Leq(samples[i], samples[j])]

\* lines 1038-1041; an empty list is divided by 1.0
normalize(samples) ==
    IF samples = <<>> THEN <<>>
    ELSE IF max_value(samples).num = 0 THEN samples
    ELSE [i \in 1..Len(samples) |-> Quotient(samples[i], max_value(samples))]

\* the call: arguments (file, target_bars), locals and the returned list
Frame(pc, file, target_bars, mono, h, start, samples, canceled, out) ==
    [pc |-> pc, file |-> file, target_bars |-> target_bars, mono |-> mono,
     hop |-> h, start |-> start, samples |-> samples, canceled |-> canceled,
     out |-> out]

\* ------------------------------------------------------------------------
\* MainWindow._normalize_camelot_key and KeyWheelWidget._parse_key
\* ------------------------------------------------------------------------
MaxKeyLen == 4

\* characters of the key texts: digits, a letter of each case that names a
\* mode, a blank and a letter that names no mode
KeyChars == {"0", "1", "2", "3", "A", "b", " ", "x"}

DigitChars == <<"0", "1", "2", "3", "4", "5", "6", "7", "8", "9">>

IsDigit(c) == \E d \in 1..10 : DigitChars[d] = c

DigitVal(c) == (CHOOSE d \in 1..10 : DigitChars[d] = c) - 1

\* int() of a string of decimal digits
RECURSIVE IntOf(_)
IntOf(s) == IF s = <<>> THEN 0
            ELSE 10 * IntOf(SubSeq(s, 1, Len(s) - 1)) + DigitVal(s[Len(s)])

IsLetter(c) == \E k \in 1..26 : UpperCase[k] = c \/ LowerCase[k] = c

\* \w of the regular expression
IsWord(c) == IsDigit(c) \/ IsLetter(c) \/ c = "_"

WordAt(s, i) == i >= 1 /\ i <= Len(s) /\ IsWord(s[i])

\* \b between s[i] and s[i + 1]
Boundary(s, i) == WordAt(s, i) # WordAt(s, i + 1)

\* \s* from index j: the index of the first character that is not whitespace
RECURSIVE SkipSpace(_, _)
SkipSpace(s, j) == IF j <= Len(s) /\ IsSpace(s[j]) THEN SkipSpace(s, j + 1) ELSE j

\* \s*([ABab])\b from index j: the index of the letter, or 0
ModeAt(s, j) ==
    LET k == SkipSpace(s, j)
    IN IF k <= Len(s) /\ s[k] \in {"A", "B", "a", "b"} /\ Boundary(s, k) THEN k ELSE 0

MatchAtLoose(s, i) ==
    IF s[i] = "1" /\ i + 1 <= Len(s) /\ s[i + 1] \in {"0", "1", "2"}
          /\ ModeAt(s, i + 2) # 0
    THEN <<SubSeq(s, i, i + 1), s[ModeAt(s, i + 2)]>>
    ELSE IF s[i] \in {"1", "2", "3", "4", "5", "6", "7", "8", "9"} /\ ModeAt(s, i + 1) # 0
    THEN <<SubSeq(s, i, i), s[ModeAt(s, i + 1)]>>
    ELSE <<>>

\* the pattern \b(1[0-2]|[1-9])\s*([ABab])\b tried at index i:
\* <<group 1, group 2>>, or <<>> when it does not match there
MatchAt(s, i) ==
    IF ~Boundary(s, i - 1) THEN <<>>
    ELSE IF s[i] = "1" /\ i + 1 <= Len(s) /\ s[i + 1] \in {"0", "1", "2"}
          /\ ModeAt(s, i + 2) # 0
    THEN <<SubSeq(s, i, i + 1), s[ModeAt(s, i + 2)]>>
    ELSE IF s[i] \in {"1", "2", "3", "4", "5", "6", "7", "8", "9"} /\ ModeAt(s, i + 1) # 0
    THEN <<SubSeq(s, i, i), s[ModeAt(s, i + 1)]>>
    ELSE <<>>

\* re.search: the match at the leftmost index that has one
re_search(s) ==
    IF \E i \in 1..Len(s) : MatchAt(s, i) # <<>>
    THEN MatchAt(s, CHOOSE i \in 1..Len(s) :
                        /\ MatchAt(s, i) # <<>>
                        /\ \A j \in 1..(i - 1) : MatchAt(s, j) = <<>>)
    ELSE <<>>

normalize_camelot_key(value) ==
    LET text == IF Truthy(coerce_text(value)) THEN coerce_text(value).val ELSE <<>>
        match == re_search(text)
    IN IF match = <<>> THEN PyNone
       ELSE PyStr(Digits(IntOf(match[1])) \o Upper(<<match[2]>>))

\* KeyWheelWidget._parse_key
parse_key(key) ==
    LET k == Upper(Strip(key))
        number_str == SubSeq(k, 1, Len(k) - 1)
    IN IF k = <<>> THEN PyNone
       ELSE IF k[Len(k)] \notin {"A", "B"} THEN PyNone
       ELSE IF number_str = <<>> \/ \E i \in 1..Len(number_str) : ~IsDigit(number_str[i])
       THEN PyNone
       ELSE IF IntOf(number_str) < 1 \/ IntOf(number_str) > 12 THEN PyNone
       ELSE PyTuple(<<PyInt(IntOf(number_str)), PyStr(<<k[Len(k)]>>)>>)

\* free-form text to the pair the wheel works with: _camelot_color hands the
\* normalized key to KeyWheelWidget.color_for_key, which parses it
camelot_pair(value) ==
    LET key == normalize_camelot_key(value)
    IN IF ~Truthy(key) THEN PyNone ELSE parse_key(key.val)

\* ------------------------------------------------------------------------
\* Paths, the track table and MainWindow._load_tracks
\* ------------------------------------------------------------------------
\* characters in the order of their code points
CodeOrder == <<"\t", " ", ".">> \o DigitChars \o UpperCase \o <<"_">> \o LowerCase

ord(c) == CHOOSE i \in 1..Len(CodeOrder) : CodeOrder[i] = c

\* a < b for two strings
RECURSIVE SeqLess(_, _)
SeqLess(a, b) ==
    IF b = <<>> THEN FALSE
    ELSE IF a = <<>> THEN TRUE
    ELSE IF Head(a) = Head(b) THEN SeqLess(Tail(a), Tail(b))
    ELSE ord(Head(a)) < ord(Head(b))

\* a stable sort of records by their key field, as list.sort(key=...) and
\* Qt's sort of a column are
RECURSIVE Insert(_, _)
Insert(sorted, x) ==
    IF sorted = <<>> THEN <<x>>
    ELSE IF SeqLess(x.key, Head(sorted).key) THEN <<x>> \o sorted
    ELSE <<Head(sorted)>> \o Insert(Tail(sorted), x)

RECURSIVE SortByKey(_)
SortByKey(xs) ==
    IF xs = <<>> THEN <<>>
    ELSE Insert(SortByKey(SubSeq(xs, 1, Len(xs) - 1)), xs[Len(xs)])

\* path.suffix: from the last dot of the name, unless the name starts or
\* ends with it
Suffix(name) ==
    LET dots == {i \in 2..Len(name) : name[i] = "."}
        cut == CHOOSE i \in dots : \A j \in dots : j <= i
    IN IF dots = {} \/ Len(name) \in dots THEN <<>> ELSE SubSeq(name, cut, Len(name))

\* path.stem
Stem(name) == SubSeq(name, 1, Len(name) - Len(Suffix(name)))

supported == {<<".", "m", "p", "3">>, <<".", "f", "l", "a", "c">>,
              <<".", "w", "a", "v">>, <<".", "m", "4", "a">>,
              <<".", "o", "g", "g">>, <<".", "a", "a", "c">>}

\* the rglob loop processes events when len(files) is a multiple of this
YieldEvery == 200

MaxScans == 2

\* a directory entry: its name and whether it is a regular file
DirEntry(name, is_file) == [name |-> name, is_file |-> is_file]

is_supported_exact(name) == Suffix(name) \in supported

\* path.suffix.lower() in supported
is_supported(name) == Lower(Suffix(name)) \in supported

\* files.sort(key=lambda item: item.name.lower())
sort_files(files) ==
    LET keyed == [i \in 1..Len(files) |-> [key |-> Lower(files[i]), item |-> files[i]]]
        sorted == SortByKey(keyed)
    IN [i \in 1..Len(files) |-> sorted[i].item]

\* a row of the table: the path kept in column 0, the text of the ARTIST
\* column, and the normalized key kept in the KEY RESULT column
Row(path, artist, key) == [path |-> path, artist |-> artist, key |-> key]

\* the table: its rows in display order, isSortingEnabled(), and the section
\* of the header's sort indicator ("cover" is column 0, whose items have no text)
Table(rows, sorting, column) == [rows |-> rows, sorting |-> sorting, column |-> column]

\* Qt sorts the rows by the indicated column; rows that compare equal keep
\* their order
sort_rows(rows, column) ==
    LET keyed == [i \in 1..Len(rows) |->
                     [key |-> IF column = "artist" THEN rows[i].artist ELSE <<>>,
                      item |-> rows[i]]]
        sorted == SortByKey(keyed)
    IN [i \in 1..Len(rows) |-> sorted[i].item]

\* QTableWidget.setSortingEnabled
setSortingEnabled(t, enable) ==
    Table(IF enable THEN sort_rows(t.rows, t.column) ELSE t.rows, enable, t.column)

\* MainWindow._add_track_row for the record _read_tags returned
track_row(path, tags) ==
    LET artist == IF Truthy(tags.artist) THEN tags.artist.val ELSE Stem(path)
        key_result == IF Truthy(tags.comments) THEN tags.comments ELSE PyStr(<<>>)
        normalized_key == normalize_camelot_key(key_result)
    IN Row(path, artist, IF Truthy(normalized_key) THEN normalized_key.val ELSE <<>>)

\* the call of _load_tracks: pc is "walk" (the rglob loop), "load" (the loop
\* over the sorted files), "returned", "canceled" or "raised" once the call
\* is over, and "idle" before the first call and after the user's next action;
\* todo: entries rglob has not yielded yet; regular: the names that were
\* regular files when the scan started; before: the rows at that moment;
\* clicked: the user pressed Cancel; canceled: progress.wasCanceled()
\* count: the scans started so far
Scan(pc, todo, regular, before, files, index, sorting_enabled, clicked, canceled, count) ==
    [pc |-> pc, todo |-> todo, regular |-> regular, before |-> before,
     files |-> files, index |-> index, sorting_enabled |-> sorting_enabled,
     clicked |-> clicked, canceled |-> canceled, count |-> count]

NoScan == Scan("idle", {}, {}, <<>>, <<>>, 0, TRUE, FALSE, FALSE, 0)

\* the call is over: its locals are gone
Ended(s, pc) == [s EXCEPT !.pc = pc, !.todo = {}, !.files = <<>>, !.index = 0,
                          !.clicked = FALSE]

\* ------------------------------------------------------------------------
\* State
\* ------------------------------------------------------------------------
MaxMtime == 2

Paths == {"a.mp3"}

VARIABLES
    reachable,      \* reachable[p]: path.stat() succeeds (else OSError)
    st_mtime_ns,    \* st_mtime_ns[p]: the file's modification fingerprint
    content,        \* content[p]: index in Contents of the file's content
    disk,           \* the durable cache file .saiomusic_cache.json
    alive,          \* MainWindow.__init__ returned (FALSE: it raised)
    tags_cache,     \* self._tags_cache: resolved path -> entry
    cache_dirty,    \* self._cache_dirty
    last,           \* the last call: operation, path, argument, result
    metaAt,         \* history: fingerprint of the last effective put_metadata
    waveAt,         \* history: fingerprint of the last effective put_waveform
    touched,        \* history: the file was modified and no put took effect since
    txIn, txOut, txPc,
    bw,             \* the frame of a _build_waveform call: arguments and locals
    folder,         \* the directory entries under the root the user scans
    table,          \* self._tracks_table: rows, sorting flag, sort column
    scan,           \* the frame of a _load_tracks call
    play,           \* the frame of a _play_track_for_row call and what it shows
    filters,        \* self._active_key_filters and the rows that are hidden
    walk            \* the rglob loop of _load_tracks over a large folder

cacheVars == <<reachable, st_mtime_ns, content, disk, alive, tags_cache,
               cache_dirty, last, metaAt, waveAt, touched>>

textVars == <<txIn, txOut, txPc>>

\* what the cache operations leave alone
sideVars == <<txIn, txOut, txPc, bw, folder, table, scan, play, filters, walk>>

scanVars == <<folder, table, scan>>

uiVars == <<play, filters, walk>>

vars == <<reachable, st_mtime_ns, content, disk, alive, tags_cache,
          cache_dirty, last, metaAt, waveAt, touched, txIn, txOut, txPc, bw,
          folder, table, scan, play, filters, walk>>

PyDict(r) == [kind |-> "dict", val |-> r]

EmptyDict == [k \in {} |-> PyNone]

\* dict.get(key) on a mapping from paths to values
DictGet(d, key) == IF key \in DOMAIN d THEN d[key] ELSE PyNone

DictPut(d, key, value) ==
    [k \in DOMAIN d \cup {key} |-> IF k = key THEN value ELSE d[k]]

\* a cache entry; a key the dict lacks reads as None through entry.get()
Entry(mtime, artist, title, label, genre, bpm, comments, cover, waveform) ==
    [mtime_ns |-> mtime, artist |-> artist, title |-> title, label |-> label,
     genre |-> genre, bpm |-> bpm, comments |-> comments, cover_data |-> cover,
     waveform |-> waveform]

EmptyEntry == Entry(PyNone, PyNone, PyNone, PyNone, PyNone, PyNone, PyNone,
                    PyNone, PyNone)

Info(artist, title, label, genre, bpm, comments, cover) ==
    [artist |-> artist, title |-> title, label |-> label, genre |-> genre,
     bpm |-> bpm, comments |-> comments, cover_data |-> cover]

TextFields == {"artist", "title", "label", "genre", "bpm", "comments"}

\* MainWindow._cache_key: the model's paths are resolved paths
cache_key(path) == path

\* path.stat().st_mtime_ns, or OSError
Stat(path) == IF reachable[path] THEN PyInt(st_mtime_ns[path]) ELSE Raise("OSError")

\* MutagenFile(path, easy=True) / MutagenFile(path) inside try/except:
\* None when the open raises or returns None
OpenEasy(path) == IF reachable[path] THEN Contents[content[path]].easy ELSE AudioRaises

OpenFull(path) == IF reachable[path] THEN Contents[content[path]].full ELSE AudioRaises

Opened(audio) == audio.open = "ok"

\* ------------------------------------------------------------------------
\* MainWindow._get_cached_tags
\* ------------------------------------------------------------------------
cached_info(entry) ==
    LET cover_data == entry.cover_data
        cover_bytes == IF cover_data.kind = "str" /\ ~Raised(B64Decode(cover_data))
                       THEN B64Decode(cover_data) ELSE PyNone
    IN PyDict(Info(coerce_text(entry.artist), coerce_text(entry.title),
                   coerce_text(entry.label), coerce_text(entry.genre),
                   coerce_text(entry.bpm), coerce_text(entry.comments),
                   cover_bytes))

get_cached_tags_nocheck(cache, path) ==
    LET entry == DictGet(cache, cache_key(path))
    IN IF entry.kind # "dict" THEN PyNone
       ELSE IF Raised(Stat(path)) THEN PyNone
       ELSE cached_info(entry.val)

get_cached_tags(cache, path) ==
    LET entry == DictGet(cache, cache_key(path))
    IN IF entry.kind # "dict" THEN PyNone
       ELSE IF Raised(Stat(path)) THEN PyNone
       ELSE IF entry.val.mtime_ns # Stat(path) THEN PyNone
       ELSE cached_info(entry.val)

\* ------------------------------------------------------------------------
\* MainWindow._store_cached_tags, on the pair [cache, dirty]
\* ------------------------------------------------------------------------
Mem(cache, dirty) == [cache |-> cache, dirty |-> dirty]

store_cached_tags_quiet(mem, path, info) ==
    IF Raised(Stat(path)) THEN mem
    ELSE LET cover_data == info.cover_data
             cover_encoded == IF cover_data.kind = "bytes"
                              THEN encode_cover_thumbnail(cover_data) ELSE PyNone
             found == DictGet(mem.cache, cache_key(path))
             entry == IF found.kind = "dict" THEN found.val ELSE EmptyEntry
             updated == [entry EXCEPT !.mtime_ns = Stat(path),
                                      !.artist = info.artist,
                                      !.title = info.title,
                                      !.label = info.label,
                                      !.genre = info.genre,
                                      !.bpm = info.bpm,
                                      !.comments = info.comments,
                                      !.cover_data = cover_encoded]
         IN Mem(DictPut(mem.cache, cache_key(path), PyDict(updated)), mem.dirty)

store_cached_tags(mem, path, info) ==
    IF Raised(Stat(path)) THEN mem
    ELSE LET cover_data == info.cover_data
             cover_encoded == IF cover_data.kind = "bytes"
                              THEN encode_cover_thumbnail(cover_data) ELSE PyNone
             found == DictGet(mem.cache, cache_key(path))
             entry == IF found.kind = "dict" THEN found.val ELSE EmptyEntry
             updated == [entry EXCEPT !.mtime_ns = Stat(path),
                                      !.artist = info.artist,
                                      !.title = info.title,
                                      !.label = info.label,
                                      !.genre = info.genre,
                                      !.bpm = info.bpm,
                                      !.comments = info.comments,
                                      !.cover_data = cover_encoded]
         IN Mem(DictPut(mem.cache, cache_key(path), PyDict(updated)), TRUE)

\* ------------------------------------------------------------------------
\* MainWindow._get_cached_waveform
\* ------------------------------------------------------------------------
\* float(value) with except (TypeError, ValueError): continue
IsNumber(v) == v.kind \in {"float", "int"}

ToFloat(v) == PyFloat(v.val[1])

cached_waveform(waveform) ==
    IF waveform.kind # "list" THEN PyNone
    ELSE LET kept == SelectSeq(waveform.val, IsNumber)
         IN PyList([i \in 1..Len(kept) |-> ToFloat(kept[i])])

get_cached_waveform(cache, path) ==
    LET entry == DictGet(cache, cache_key(path))
    IN IF entry.kind # "dict" THEN PyNone
       ELSE IF Raised(Stat(path)) THEN PyNone
       ELSE IF entry.val.mtime_ns # Stat(path) THEN PyNone
       ELSE cached_waveform(entry.val.waveform)

\* ------------------------------------------------------------------------
\* MainWindow._store_cached_waveform
\* ------------------------------------------------------------------------
store_cached_waveform_blind(mem, path, samples) ==
    LET found == DictGet(mem.cache, cache_key(path))
        entry == IF found.kind = "dict" THEN found.val ELSE EmptyEntry
        updated == [entry EXCEPT !.mtime_ns = PyNone, !.waveform = samples]
    IN Mem(DictPut(mem.cache, cache_key(path), PyDict(updated)), TRUE)

store_cached_waveform(mem, path, samples) ==
    IF Raised(Stat(path)) THEN mem
    ELSE LET found == DictGet(mem.cache, cache_key(path))
             entry == IF found.kind = "dict" THEN found.val ELSE EmptyEntry
             updated == [entry EXCEPT !.mtime_ns = Stat(path),
                                      !.waveform = samples]
         IN Mem(DictPut(mem.cache, cache_key(path), PyDict(updated)), TRUE)

\* ------------------------------------------------------------------------
\* MainWindow._read_tags
\* ------------------------------------------------------------------------
\* ret: the returned record or the raise; mem: cache and dirty flag after the
\* call; puts: _store_cached_tags ran and took effect
Outcome(ret, mem, puts) == [ret |-> ret, mem |-> mem, puts |-> puts]

\* the six alias lookups of the easy view; the first lookup that raises
\* ends the call
easy_fields(audio) ==
    Info(first_tag(audio, <<"artist">>),
         first_tag(audio, <<"title">>),
         first_tag(audio, <<"label", "organization", "publisher">>),
         first_tag(audio, <<"genre", "tcon">>),
         first_tag(audio, <<"bpm", "tbpm">>),
         first_tag(audio, <<"comment", "comments">>),
         PyNone)

AllNone == Info(PyNone, PyNone, PyNone, PyNone, PyNone, PyNone, PyNone)

\* the cache-miss branch up to the store: the extracted record, or the raise
extract_from(file) ==
    LET audio == file.easy
        audio_full == file.full
        easy == IF Opened(audio) THEN easy_fields(audio) ELSE AllNone
        comments == IF Opened(audio_full) /\ ~Truthy(easy.comments)
                    THEN extract_comment(audio_full) ELSE easy.comments
        cover == IF Opened(audio_full) THEN extract_cover(audio_full) ELSE PyNone
    IN IF Opened(audio) /\ Raised(first_tag(audio, <<"artist">>))
       THEN first_tag(audio, <<"artist">>)
       ELSE PyDict([easy EXCEPT !.comments = comments, !.cover_data = cover])

\* what the decoders yield for each content (computed once per content)
Extracted == [i \in ContentIds |-> extract_from(Contents[i])]

CoverOf == [i \in ContentIds |->
               IF Opened(Contents[i].full) THEN extract_cover(Contents[i].full) ELSE PyNone]

GenreOf == [i \in ContentIds |-> first_tag(Contents[i].easy, <<"genre", "tcon">>)]

\* a file that cannot be reached cannot be opened either
extract_info(path) ==
    IF reachable[path] THEN Extracted[content[path]] ELSE PyDict(AllNone)

\* the cache-hit branch: refill a missing cover, then a missing genre
read_tags_hit(mem, path, cached) ==
    LET cover_data == CoverOf[content[path]]
        refill == cached.cover_data = PyNone /\ Truthy(cover_data)
        cached1 == IF refill THEN [cached EXCEPT !.cover_data = cover_data] ELSE cached
        mem1 == IF refill THEN store_cached_tags(mem, path, cached1) ELSE mem
        audio == OpenEasy(path)
        genre == GenreOf[content[path]]
    IN IF Truthy(cached1.genre) \/ ~Opened(audio) THEN Outcome(PyDict(cached1), mem1, refill)
       ELSE IF Raised(genre) THEN Outcome(genre, mem1, refill)
       ELSE Outcome(PyDict([cached1 EXCEPT !.genre = genre]),
                    store_cached_tags(mem1, path, [cached1 EXCEPT !.genre = genre]),
                    TRUE)

read_tags(mem, path) ==
    LET cached == get_cached_tags(mem.cache, path)
        info == extract_info(path)
    IN IF cached # PyNone THEN read_tags_hit(mem, path, cached.val)
       ELSE IF Raised(info) THEN Outcome(info, mem, FALSE)
       ELSE Outcome(info, store_cached_tags(mem, path, info.val), ~Raised(Stat(path)))

\* the covers one _store_cached_tags call hands to _encode_cover_thumbnail
store_encodes(path, info) ==
    IF Raised(Stat(path)) \/ info.cover_data.kind # "bytes" THEN <<>>
    ELSE <<info.cover_data>>

\* the covers _read_tags hands to _encode_cover_thumbnail, in call order
read_tags_encodes(mem, path) ==
    LET cached == get_cached_tags(mem.cache, path)
        info == extract_info(path)
        cover_data == CoverOf[content[path]]
        refill == cached.val.cover_data = PyNone /\ Truthy(cover_data)
        cached1 == IF refill THEN [cached.val EXCEPT !.cover_data = cover_data]
                   ELSE cached.val
        first == IF refill THEN store_encodes(path, cached1) ELSE <<>>
    IN IF cached # PyNone
       THEN (IF Truthy(cached1.genre) \/ ~Opened(OpenEasy(path))
                \/ Raised(GenreOf[content[path]])
             THEN first
             ELSE first \o store_encodes(path, cached1))
       ELSE IF Raised(info) THEN <<>>
       ELSE store_encodes(path, info.val)

\* ------------------------------------------------------------------------
\* The durable cache file and JSON
\* ------------------------------------------------------------------------
\* states of the file: missing, unreadable (read raises OSError),
\* undecodable (not UTF-8 text), badjson (text that is not JSON, for
\* instance a truncated document), nonobject (JSON that is not an object),
\* object (a JSON object, data holds its members)
DiskFile(kind, data) == [kind |-> kind, data |-> data]

\* json.dumps of a value: None is null, str a string, int and float numbers,
\* list and tuple arrays, dict an object.  (bytes would raise TypeError; no
\* store puts bytes in an entry: covers are stored as base64 text.)
JsonKind(kind) == CASE kind = "None" -> "null"
                    [] kind = "str" -> "string"
                    [] kind = "int" -> "integer"
                    [] kind = "float" -> "real"

RECURSIVE ToJson(_)
ToJson(v) ==
    CASE v.kind \in {"list", "tuple"} ->
             [kind |-> "array", val |-> [i \in 1..Len(v.val) |-> ToJson(v.val[i])]]
      [] v.kind = "dict" ->
             [kind |-> "object", val |-> [f \in DOMAIN v.val |-> ToJson(v.val[f])]]
      [] OTHER -> [kind |-> JsonKind(v.kind), val |-> v.val]

JsonDumps(cache) == [k \in DOMAIN cache |-> ToJson(cache[k])]

\* json.loads: arrays are lists, objects are dicts, null is None
PyKind(kind) == CASE kind = "null" -> "None"
                  [] kind = "string" -> "str"
                  [] kind = "integer" -> "int"
                  [] kind = "real" -> "float"

RECURSIVE FromJson(_)
FromJson(j) ==
    CASE j.kind = "array" -> PyList([i \in 1..Len(j.val) |-> FromJson(j.val[i])])
      [] j.kind = "object" -> PyDict([f \in DOMAIN j.val |-> FromJson(j.val[f])])
      [] OTHER -> [kind |-> PyKind(j.kind), val |-> j.val]

JsonLoads(data) == [k \in DOMAIN data |-> FromJson(data[k])]

\* ------------------------------------------------------------------------
\* MainWindow._load_cache
\* ------------------------------------------------------------------------
load_cache(d) ==
    CASE d.kind = "missing" -> PyDict(EmptyDict)            \* not exists()
      [] d.kind = "unreadable" -> PyDict(EmptyDict)         \* OSError
      [] d.kind = "undecodable" -> Raise("UnicodeDecodeError")  \* not caught
      [] d.kind = "badjson" -> PyDict(EmptyDict)            \* JSONDecodeError
      [] d.kind = "nonobject" -> PyDict(EmptyDict)          \* not a dict
      [] d.kind = "object" -> PyDict(JsonLoads(d.data))

\* ------------------------------------------------------------------------
\* Initial state: the state after MainWindow.__init__ (lines 57-58), for
\* every state of the durable cache file the program can find at start-up
\* ------------------------------------------------------------------------
\* a document written by another program: a member that is not an object
ForeignData == [k \in Paths |-> [kind |-> "integer", val |-> <<7>>]]

ForeignFiles == {DiskFile("missing", EmptyDict), DiskFile("unreadable", EmptyDict),
                 DiskFile("undecodable", EmptyDict), DiskFile("badjson", EmptyDict),
                 DiskFile("nonobject", EmptyDict), DiskFile("object", EmptyDict),
                 DiskFile("object", ForeignData)}

\* arg: what the call was given; for read_tags, which is given the path
\* only, the covers it handed to the thumbnail encoder
Call(op, path, arg, res, wrote, tick) ==
    [op |-> op, path |-> path, arg |-> arg, res |-> res, wrote |-> wrote, tick |-> tick]

NoPath == "-"

\* an event of the environment: it ends the run of consecutive calls
Event(name, path) == Call(name, path, PyNone, PyNone, FALSE, FALSE)

TextIdle == /\ txIn = PyNone
            /\ txOut = PyNone
            /\ txPc = "idle"

WaveIdle == bw = Frame("idle", NoFile, 1, <<>>, 1, 0, <<>>, FALSE, <<>>)

ScanIdle == /\ folder = {}
            /\ table = Table(<<>>, TRUE, "cover")
            /\ scan = NoScan

\* the call of _play_track_for_row: pc is "build" while _build_waveform runs
\* under the dialog of _load_waveform, "returned" or "raised" once the call
\* is over; status: the waveform status label; shown: the envelope handed to
\* the waveform widget; outcome: how _load_waveform ended
Status(visible, text) == [visible |-> visible, text |-> text]

Play(pc, path, status, shown, outcome) ==
    [pc |-> pc, path |-> path, status |-> status, shown |-> shown, outcome |-> outcome]

NoPlay == Play("idle", NoPath, Status(FALSE, ""), <<>>, "none")

\* active: self._active_key_filters; hidden: the paths of the rows for which
\* isRowHidden holds
Filters(active, hidden) == [active |-> active, hidden |-> hidden]

NoFilters == Filters({}, {})

\* the rglob loop by numbers: visited entries, len(files), the entries
\* visited since events were last processed
Walk(pc, visited, files, unseen, clicked, canceled) ==
    [pc |-> pc, visited |-> visited, files |-> files, unseen |-> unseen,
     clicked |-> clicked, canceled |-> canceled]

NoWalk == Walk("idle", 0, 0, 0, FALSE, FALSE)

UiIdle == play = NoPlay /\ filters = NoFilters /\ walk = NoWalk

SideIdle == TextIdle /\ WaveIdle /\ ScanIdle /\ UiIdle

Init == /\ reachable = [p \in Paths |-> TRUE]
        /\ st_mtime_ns = [p \in Paths |-> 1]
        /\ content \in [Paths -> LibraryIds]
        /\ disk = DiskFile("missing", EmptyDict)
        /\ alive = ~Raised(load_cache(disk))
        /\ tags_cache = IF Raised(load_cache(disk)) THEN EmptyDict
                        ELSE load_cache(disk).val
        /\ cache_dirty = FALSE
        /\ last = Call("load_cache", NoPath, PyNone, load_cache(disk), FALSE, FALSE)
        /\ metaAt = [p \in Paths |-> 0]
        /\ waveAt = [p \in Paths |-> 0]
        /\ touched = [p \in Paths |-> FALSE]
        /\ SideIdle

\* ------------------------------------------------------------------------
\* The environment: the user's files and the cache file
\* ------------------------------------------------------------------------
\* the file is rewritten: new content, later modification time
TouchTo(p, ids) ==
    /\ st_mtime_ns[p] < MaxMtime
    /\ st_mtime_ns' = [st_mtime_ns EXCEPT ![p] = @ + 1]
    /\ \E c \in ids : content' = [content EXCEPT ![p] = c]
    /\ reachable' = [reachable EXCEPT ![p] = TRUE]
    /\ touched' = [touched EXCEPT ![p] = TRUE]
    /\ last' = Event("touch", p)
    /\ UNCHANGED <<disk, alive, tags_cache, cache_dirty, metaAt, waveAt>>
    /\ UNCHANGED sideVars

Touch(p) == TouchTo(p, LibraryIds)

\* the file vanishes or becomes unreadable: stat raises OSError
Vanish(p) == /\ reachable[p]
             /\ reachable' = [reachable EXCEPT ![p] = FALSE]
             /\ last' = Event("vanish", p)
             /\ UNCHANGED <<st_mtime_ns, content, disk, alive, tags_cache,
                            cache_dirty, metaAt, waveAt, touched>>
             /\ UNCHANGED sideVars

\* the file is reachable again, unmodified
Restore(p) == /\ ~reachable[p]
              /\ reachable' = [reachable EXCEPT ![p] = TRUE]
              /\ last' = Event("restore", p)
              /\ UNCHANGED <<st_mtime_ns, content, disk, alive, tags_cache,
                             cache_dirty, metaAt, waveAt, touched>>
              /\ UNCHANGED sideVars

\* the cache file is removed, locked or overwritten behind the program's back
TamperDisk == /\ \E d \in ForeignFiles : d # disk /\ disk' = d
              /\ last' = Event("tamper", NoPath)
              /\ UNCHANGED <<reachable, st_mtime_ns, content, alive, tags_cache,
                             cache_dirty, metaAt, waveAt, touched>>
              /\ UNCHANGED sideVars

\* ------------------------------------------------------------------------
\* Operations of the program
\* ------------------------------------------------------------------------
fileVars == <<reachable, st_mtime_ns, content>>

Tick(op, p) == IF last.op = op /\ last.path = p THEN ~last.tick ELSE FALSE

\* the program is started (again): __init__ loads the cache, lines 57-58
Restart ==
    /\ alive' = ~Raised(load_cache(disk))
    /\ tags_cache' = IF Raised(load_cache(disk)) THEN EmptyDict ELSE load_cache(disk).val
    /\ cache_dirty' = FALSE
    /\ last' = Call("load_cache", NoPath, PyNone, load_cache(disk), FALSE,
                    Tick("load_cache", NoPath))
    /\ UNCHANGED <<fileVars, disk, metaAt, waveAt, touched>>
    /\ UNCHANGED sideVars

\* a lookup that evicts the entry it finds stale
GetCachedTagsEvict(p) ==
    /\ alive
    /\ last' = Call("get_cached_tags", p, PyNone, get_cached_tags(tags_cache, p),
                    FALSE, Tick("get_cached_tags", p))
    /\ LET stale == /\ cache_key(p) \in DOMAIN tags_cache
                    /\ get_cached_tags(tags_cache, p) = PyNone
       IN /\ tags_cache' = IF stale
                           THEN [k \in DOMAIN tags_cache \ {cache_key(p)} |-> tags_cache[k]]
                           ELSE tags_cache
          /\ cache_dirty' = (cache_dirty \/ stale)
    /\ UNCHANGED <<fileVars, disk, alive, metaAt, waveAt, touched>>
    /\ UNCHANGED sideVars

GetCachedTags(p) ==
    /\ alive
    /\ last' = Call("get_cached_tags", p, PyNone, get_cached_tags(tags_cache, p),
                    FALSE, Tick("get_cached_tags", p))
    /\ UNCHANGED <<fileVars, disk, alive, tags_cache, cache_dirty, metaAt, waveAt, touched>>
    /\ UNCHANGED sideVars

GetCachedWaveform(p) ==
    /\ alive
    /\ last' = Call("get_cached_waveform", p, PyNone,
                    get_cached_waveform(tags_cache, p), FALSE,
                    Tick("get_cached_waveform", p))
    /\ UNCHANGED <<fileVars, disk, alive, tags_cache, cache_dirty, metaAt, waveAt, touched>>
    /\ UNCHANGED sideVars

\* put_metadata with a record extraction produces for the file (line 1253)
StoreCachedTags(p) ==
    /\ alive
    /\ ~Raised(extract_info(p))
    /\ LET info == extract_info(p)
           mem == store_cached_tags(Mem(tags_cache, cache_dirty), p, info.val)
       IN /\ tags_cache' = mem.cache
          /\ cache_dirty' = mem.dirty
          /\ last' = Call("store_cached_tags", p, info, PyNone, FALSE,
                          Tick("store_cached_tags", p))
          /\ metaAt' = IF reachable[p] THEN [metaAt EXCEPT ![p] = st_mtime_ns[p]]
                       ELSE metaAt
          /\ touched' = IF reachable[p] THEN [touched EXCEPT ![p] = FALSE] ELSE touched
    /\ UNCHANGED <<fileVars, disk, alive, waveAt>>
    /\ UNCHANGED sideVars

\* put_waveform with the non-empty envelope built from the file (line 986)
StoreCachedWaveform(p) ==
    /\ alive
    /\ Truthy(Contents[content[p]].wave)
    /\ LET samples == Contents[content[p]].wave
           mem == store_cached_waveform(Mem(tags_cache, cache_dirty), p, samples)
       IN /\ tags_cache' = mem.cache
          /\ cache_dirty' = mem.dirty
          /\ last' = Call("store_cached_waveform", p, samples, PyNone, FALSE,
                          Tick("store_cached_waveform", p))
          /\ waveAt' = IF reachable[p] THEN [waveAt EXCEPT ![p] = st_mtime_ns[p]]
                       ELSE waveAt
          /\ touched' = IF reachable[p] THEN [touched EXCEPT ![p] = FALSE] ELSE touched
    /\ UNCHANGED <<fileVars, disk, alive, metaAt>>
    /\ UNCHANGED sideVars

\* extract: _read_tags with every store it performs
ReadTags(p) ==
    /\ alive
    /\ LET out == read_tags(Mem(tags_cache, cache_dirty), p)
           stored == out.puts
       IN /\ tags_cache' = out.mem.cache
          /\ cache_dirty' = out.mem.dirty
          /\ last' = Call("read_tags", p,
                           PyList(read_tags_encodes(Mem(tags_cache, cache_dirty), p)),
                           out.ret, FALSE, Tick("read_tags", p))
          /\ metaAt' = IF stored THEN [metaAt EXCEPT ![p] = st_mtime_ns[p]] ELSE metaAt
          /\ touched' = IF stored THEN [touched EXCEPT ![p] = FALSE] ELSE touched
    /\ UNCHANGED <<fileVars, disk, alive, waveAt>>
    /\ UNCHANGED sideVars

\* flush: _save_cache.  write_text raises OSError before it touches the file
\* (open fails) or after it truncated it (the write fails half-way)
save_cache_always(outcome) ==
    /\ alive
    /\ disk' = CASE outcome = "written" -> DiskFile("object", JsonDumps(tags_cache))
                 [] outcome = "open fails" -> disk
                 [] outcome = "write fails" -> DiskFile("badjson", EmptyDict)
    /\ cache_dirty' = IF outcome = "written" THEN FALSE ELSE cache_dirty
    /\ last' = Call("save_cache", NoPath, PyStr(<<outcome>>), PyNone, TRUE,
                    Tick("save_cache", NoPath))
    /\ UNCHANGED <<fileVars, alive, tags_cache, metaAt, waveAt, touched>>
    /\ UNCHANGED sideVars

save_cache_clears(outcome) ==
    /\ alive
    /\ \/ /\ ~cache_dirty
          /\ last' = Call("save_cache", NoPath, PyNone, PyNone, FALSE,
                          Tick("save_cache", NoPath))
          /\ UNCHANGED <<disk, cache_dirty>>
       \/ /\ cache_dirty
          /\ disk' = CASE outcome = "written" -> DiskFile("object", JsonDumps(tags_cache))
                       [] outcome = "open fails" -> disk
                       [] outcome = "write fails" -> DiskFile("badjson", EmptyDict)
          /\ cache_dirty' = FALSE
          /\ last' = Call("save_cache", NoPath, PyStr(<<outcome>>), PyNone, TRUE,
                          Tick("save_cache", NoPath))
    /\ UNCHANGED <<fileVars, alive, tags_cache, metaAt, waveAt, touched>>
    /\ UNCHANGED sideVars

save_cache(outcome) ==
    /\ alive
    /\ \/ /\ ~cache_dirty
          /\ last' = Call("save_cache", NoPath, PyNone, PyNone, FALSE,
                          Tick("save_cache", NoPath))
          /\ UNCHANGED <<disk, cache_dirty>>
       \/ /\ cache_dirty
          /\ disk' = CASE outcome = "written" -> DiskFile("object", JsonDumps(tags_cache))
                       [] outcome = "open fails" -> disk
                       [] outcome = "write fails" -> DiskFile("badjson", EmptyDict)
          /\ cache_dirty' = (outcome # "written")
          /\ last' = Call("save_cache", NoPath, PyStr(<<outcome>>), PyNone, TRUE,
                          Tick("save_cache", NoPath))
    /\ UNCHANGED <<fileVars, alive, tags_cache, metaAt, waveAt, touched>>
    /\ UNCHANGED sideVars

WriteOutcomes == {"written", "open fails", "write fails"}

SaveCache == \E outcome \in WriteOutcomes : save_cache(outcome)

Next == \/ \E p \in Paths : Touch(p)
        \/ \E p \in Paths : Vanish(p)
        \/ \E p \in Paths : Restore(p)
        \/ Restart
        \/ \E p \in Paths : GetCachedTags(p)
        \/ \E p \in Paths : GetCachedWaveform(p)
        \/ \E p \in Paths : StoreCachedTags(p)
        \/ \E p \in Paths : StoreCachedWaveform(p)
        \/ \E p \in Paths : ReadTags(p)
        \/ SaveCache

Spec == Init /\ [][Next]_vars

\* ------------------------------------------------------------------------
\* Start-up: every state of the durable cache file, loads and lookups
\* ------------------------------------------------------------------------
InitLoad == /\ reachable = [p \in Paths |-> TRUE]
            /\ st_mtime_ns = [p \in Paths |-> 1]
            /\ content \in [Paths -> LibraryIds]
            /\ disk \in {d \in ForeignFiles : ~Raised(load_cache(d))}
            /\ alive = TRUE
            /\ tags_cache = IF Raised(load_cache(disk)) THEN EmptyDict
                            ELSE load_cache(disk).val
            /\ cache_dirty = FALSE
            /\ last = Call("load_cache", NoPath, PyNone, load_cache(disk), FALSE, FALSE)
            /\ metaAt = [p \in Paths |-> 0]
            /\ waveAt = [p \in Paths |-> 0]
            /\ touched = [p \in Paths |-> FALSE]
            /\ SideIdle

NextLoad == \/ TamperDisk
            \/ Restart
            \/ \E p \in Paths : GetCachedTags(p)
            \/ \E p \in Paths : GetCachedWaveform(p)
            \/ \E p \in Paths : StoreCachedWaveform(p)
            \/ SaveCache

SpecLoad == InitLoad /\ [][NextLoad]_vars

\* ------------------------------------------------------------------------
\* Extraction: every kind of file, repeated reads of its tags
\* ------------------------------------------------------------------------
InitExtract == /\ reachable = [p \in Paths |-> TRUE]
               /\ st_mtime_ns = [p \in Paths |-> 1]
               /\ content \in [Paths -> ContentIds]
               /\ disk = DiskFile("missing", EmptyDict)
               /\ alive = TRUE
               /\ tags_cache = EmptyDict
               /\ cache_dirty = FALSE
               /\ last = Call("load_cache", NoPath, PyNone, PyDict(EmptyDict), FALSE, FALSE)
               /\ metaAt = [p \in Paths |-> 0]
               /\ waveAt = [p \in Paths |-> 0]
               /\ touched = [p \in Paths |-> FALSE]
               /\ SideIdle

NextExtract == \/ \E p \in Paths : TouchTo(p, ContentIds)
               \/ \E p \in Paths : ReadTags(p)
               \/ \E p \in Paths : StoreCachedWaveform(p)
               \/ \E p \in Paths : GetCachedTags(p)

SpecExtract == InitExtract /\ [][NextExtract]_vars

\* ------------------------------------------------------------------------
\* Inputs of the text functions
\* ------------------------------------------------------------------------
Scalars == {PyNone} \cup {PyStr(s) : s \in SeqsUpTo(Chars, MaxLen)}
           \cup {PyBytes(b) : b \in SeqsUpTo(Bytes, MaxLen)}
           \cup {PyInt(n) : n \in {0, 7, 12}}

TagValues == Scalars
             \cup {PyList(xs) : xs \in SeqsUpTo(Scalars, 1)}
             \cup {PyTuple(xs) : xs \in SeqsUpTo(Scalars, 1)}
             \cup {PyList(<<x, PyStr(<<"a">>)>>) : x \in Scalars}

\* the cache as a program with no cache file and no call made leaves it
CacheIdle == /\ reachable = [p \in Paths |-> TRUE]
             /\ st_mtime_ns = [p \in Paths |-> 1]
             /\ content = [p \in Paths |-> 1]
             /\ disk = DiskFile("missing", EmptyDict)
             /\ alive = TRUE
             /\ tags_cache = EmptyDict
             /\ cache_dirty = FALSE
             /\ last = Call("load_cache", NoPath, PyNone, PyDict(EmptyDict), FALSE, FALSE)
             /\ metaAt = [p \in Paths |-> 0]
             /\ waveAt = [p \in Paths |-> 0]
             /\ touched = [p \in Paths |-> FALSE]

InitText == /\ txIn \in TagValues
            /\ txOut = PyNone
            /\ txPc = "call"
            /\ CacheIdle
            /\ WaveIdle
            /\ ScanIdle
            /\ UiIdle

CoerceText == /\ txPc = "call"
              /\ txOut' = coerce_text(txIn)
              /\ txPc' = "returned"
              /\ UNCHANGED txIn
              /\ UNCHANGED <<cacheVars, bw, scanVars, uiVars>>

NextText == CoerceText

SpecText == InitText /\ [][NextText]_vars

\* ------------------------------------------------------------------------
\* Building an envelope: _build_waveform under its progress dialog
\* ------------------------------------------------------------------------
\* lines 1001-1022: read the samples, leave early or enter the loop
BuildStart ==
    /\ bw.pc = "call"
    /\ LET data == read_audio_samples(bw.file)
       IN IF data = PyNone \/ Len(data.val) = 0
          THEN bw' = [bw EXCEPT !.pc = "done", !.out = <<>>]
          ELSE bw' = [bw EXCEPT !.pc = "loop", !.mono = data.val,
                                !.hop = hop(Len(data.val), bw.target_bars),
                                !.start = 0]
    /\ UNCHANGED <<cacheVars, textVars, scanVars, uiVars>>

\* the user presses Cancel; the modal dialog handles the click inside
\* progress.setValue or processEvents (lines 1029-1031)
CancelBuild ==
    /\ bw.pc = "loop"
    /\ ~bw.canceled
    /\ bw' = [bw EXCEPT !.canceled = TRUE]
    /\ UNCHANGED <<cacheVars, textVars, scanVars, uiVars>>

BuildWindowDeaf ==
    /\ bw.pc = "loop"
    /\ bw.start < Len(bw.mono)
    /\ bw' = [bw EXCEPT !.samples = Append(@, rms(chunk(bw.mono, bw.start, bw.hop))),
                        !.start = @ + bw.hop]
    /\ UNCHANGED <<cacheVars, textVars, scanVars, uiVars>>

\* one pass of the loop, lines 1025-1036: the checkpoint, then the window
BuildWindow ==
    /\ bw.pc = "loop"
    /\ bw.start < Len(bw.mono)
    /\ IF bw.canceled
       THEN bw' = [bw EXCEPT !.pc = "done", !.out = <<>>]
       ELSE bw' = [bw EXCEPT !.samples = Append(@, rms(chunk(bw.mono, bw.start, bw.hop))),
                             !.start = @ + bw.hop]
    /\ UNCHANGED <<cacheVars, textVars, scanVars, uiVars>>

\* the loop is exhausted: lines 1038-1041
BuildFinish ==
    /\ bw.pc = "loop"
    /\ bw.start >= Len(bw.mono)
    /\ bw' = [bw EXCEPT !.pc = "done", !.out = normalize(bw.samples)]
    /\ UNCHANGED <<cacheVars, textVars, scanVars, uiVars>>

NextWave == BuildStart \/ CancelBuild \/ BuildWindow \/ BuildFinish

Mp3 == <<".", "m", "p", "3">>

\* every signal of up to MaxFrames frames, read by soundfile
WaveFiles == {AudioFile(Mp3, TRUE, "ok", "ok", "ok", pcm) :
                 pcm \in SeqsUpTo(Amplitudes, MaxFrames)}

InitWave == /\ bw \in {Frame("call", f, n, <<>>, 1, 0, <<>>, FALSE, <<>>) :
                          f \in WaveFiles, n \in 1..MaxBars}
            /\ CacheIdle
            /\ TextIdle
            /\ ScanIdle
            /\ UiIdle

SpecWave == InitWave /\ [][NextWave]_vars

\* every installation and every outcome of the decoders, on an empty and on
\* a non-empty signal
SampleFiles == {AudioFile(x, np, sf, wav, pydub, pcm) :
                   x \in {Mp3, <<".", "W", "a", "v">>},
                   np \in BOOLEAN,
                   sf \in {"absent", "raises", "ok"},
                   wav \in {"raises", "width3", "ok"},
                   pydub \in {"absent", "raises", "width0", "ok"},
                   pcm \in {<<>>, <<1, 0, -2>>}}

InitSamples == /\ bw \in {Frame("call", f, n, <<>>, 1, 0, <<>>, FALSE, <<>>) :
                             f \in SampleFiles, n \in {2}}
               /\ CacheIdle
               /\ TextIdle
               /\ ScanIdle
               /\ UiIdle

SpecSamples == InitSamples /\ [][NextWave]_vars

\* ------------------------------------------------------------------------
\* Inputs of the key parser
\* ------------------------------------------------------------------------
KeyTexts == {PyNone} \cup {PyStr(s) : s \in SeqsUpTo(KeyChars, MaxKeyLen)}

InitKey == /\ txIn \in KeyTexts
           /\ txOut = PyNone
           /\ txPc = "call"
           /\ CacheIdle
           /\ WaveIdle
           /\ ScanIdle
           /\ UiIdle

CamelotPair == /\ txPc = "call"
               /\ txOut' = camelot_pair(txIn)
               /\ txPc' = "returned"
               /\ UNCHANGED txIn
               /\ UNCHANGED <<cacheVars, bw, scanVars, uiVars>>

NextKey == CamelotPair

SpecKey == InitKey /\ [][NextKey]_vars

\* ------------------------------------------------------------------------
\* Inputs of the cover extraction: containers put together from the sources
\* _extract_cover looks at
\* ------------------------------------------------------------------------
ApicSources ==
    {<<FALSE, <<>>>>,
     <<FALSE, <<Item("APIC:", ApicFrame(ImageBytes("jpeg", "pic1")))>>>>,
     <<FALSE, <<Item("APIC:", Txt(<<"a">>))>>>>,
     <<TRUE, <<>>>>,
     <<TRUE, <<Item("APIC:cover", ApicFrame(ImageBytes("jpeg", "pic1")))>>>>}

PictureSources == {<<>>, <<ImageBytes("png", "pic2")>>}

CovrSources ==
    {<<>>,
     <<Item("covr", L1(ImageBytes("jpeg", "pic3")))>>,
     <<Item("covr", L1(Txt(<<"a">>)))>>}

LowerBlockSources ==
    {<<>>,
     <<Item("metadata_block_picture", L1(B64Encode(ImageBytes("jpeg", "pic4"))))>>,
     <<Item("metadata_block_picture", L1(PyInt(7)))>>,
     <<Item("metadata_block_picture", ImageBytes("jpeg", "pic4"))>>}

UpperBlockSources ==
    {<<>>,
     <<Item("METADATA_BLOCK_PICTURE", L1(B64Encode(ImageBytes("jpeg", "pic5"))))>>}

CoverInputs ==
    {AudioNone, Audio("ok", "absent", <<>>, FALSE, <<>>)}
    \cup {Audio("ok", "dict", a[2] \o c \o l \o u, a[1], pics) :
            a \in ApicSources, pics \in PictureSources, c \in CovrSources,
            l \in LowerBlockSources, u \in UpperBlockSources}

InitCover == /\ txIn \in CoverInputs
             /\ txOut = PyNone
             /\ txPc = "call"
             /\ CacheIdle
             /\ WaveIdle
             /\ ScanIdle
             /\ UiIdle

ExtractCover == /\ txPc = "call"
                /\ txOut' = extract_cover(txIn)
                /\ txPc' = "returned"
                /\ UNCHANGED txIn
                /\ UNCHANGED <<cacheVars, bw, scanVars, uiVars>>

NextCover == ExtractCover

SpecCover == InitCover /\ [][NextCover]_vars

\* ------------------------------------------------------------------------
\* Scanning a folder: _load_tracks under its progress dialog
\* ------------------------------------------------------------------------
B_mp3 == <<"B", ".", "m", "p", "3">>

a_WAV == <<"a", ".", "W", "A", "V">>

c_txt == <<"c", ".", "t", "x", "t">>

d_ogg == <<"d", ".", "o", "g", "g">>

\* two audio files, a text file, and a directory named like an audio file
Entries == {DirEntry(B_mp3, TRUE), DirEntry(a_WAV, TRUE), DirEntry(c_txt, TRUE),
            DirEntry(d_ogg, FALSE)}

ScanPaths == {e.name : e \in Entries}

AudioPaths == {B_mp3, a_WAV}

\* what the files hold: an ID3 file or a file without a tag header, an MP4
\* container or a corrupt file
ScanContents == {c \in [ScanPaths -> ContentIds] :
                    /\ c[B_mp3] \in {1, 4}
                    /\ c[a_WAV] \in {2, 6}
                    /\ c[c_txt] = 7
                    /\ c[d_ogg] = 7}

InitScan == /\ reachable = [p \in ScanPaths |-> TRUE]
            /\ st_mtime_ns = [p \in ScanPaths |-> 1]
            /\ content \in ScanContents
            /\ disk = DiskFile("missing", EmptyDict)
            /\ alive = TRUE
            /\ tags_cache = EmptyDict
            /\ cache_dirty = FALSE
            /\ last = Call("load_cache", NoPath, PyNone, PyDict(EmptyDict), FALSE, FALSE)
            /\ metaAt = [p \in ScanPaths |-> 0]
            /\ waveAt = [p \in ScanPaths |-> 0]
            /\ touched = [p \in ScanPaths |-> FALSE]
            /\ folder \in SUBSET Entries
            /\ table = Table(<<>>, TRUE, "cover")
            /\ scan = NoScan
            /\ TextIdle
            /\ WaveIdle
            /\ UiIdle

Running == scan.pc \in {"walk", "load"}

\* the cache file can be written throughout these scenarios
ScanWrites == {"written"}

\* the finally clause, lines 505-509: _save_cache with the cache the call
\* leaves
Finally(mem, outcome) ==
    /\ disk' = IF ~mem.dirty THEN disk
               ELSE CASE outcome = "written" -> DiskFile("object", JsonDumps(mem.cache))
                      [] outcome = "open fails" -> disk
                      [] outcome = "write fails" -> DiskFile("badjson", EmptyDict)
    /\ cache_dirty' = (mem.dirty /\ outcome # "written")
    /\ tags_cache' = mem.cache

\* the user creates or removes an entry of the folder between two scans
FolderChange ==
    /\ ~Running
    /\ scan.count \in 1..(MaxScans - 1)
    /\ \E e \in Entries : folder' = IF e \in folder THEN folder \ {e} ELSE folder \cup {e}
    /\ scan' = Ended(scan, "idle")
    /\ UNCHANGED <<cacheVars, textVars, bw, table, uiVars>>

\* the user clicks the ARTIST section of the header: with sorting enabled
\* (line 409) the table is sorted by that column, which stays the sort column
HeaderClick ==
    /\ ~Running
    /\ table.sorting
    /\ table.column # "artist"
    /\ table' = Table(sort_rows(table.rows, "artist"), TRUE, "artist")
    /\ scan' = Ended(scan, "idle")
    /\ UNCHANGED <<cacheVars, textVars, bw, folder, uiVars>>

\* the user presses Cancel in the progress dialog; the program learns of it
\* when it next processes events
ClickCancel ==
    /\ Running
    /\ ~scan.clicked
    /\ scan' = [scan EXCEPT !.clicked = TRUE]
    /\ UNCHANGED <<cacheVars, textVars, bw, folder, table, uiVars>>

\* lines 459-471: the dialog is shown, rglob starts
ScanStart ==
    /\ alive
    /\ ~Running
    /\ scan.count < MaxScans
    /\ scan' = Scan("walk", folder,
                    {e.name : e \in {x \in folder : x.is_file /\ reachable[x.name]}},
                    table.rows, <<>>, 0, table.sorting, FALSE, FALSE, scan.count + 1)
    /\ UNCHANGED <<cacheVars, textVars, bw, folder, table, uiVars>>

\* one pass of the rglob loop, lines 474-481; a pass that finds the flag set
\* leaves through line 484 and the finally clause
WalkEntry ==
    /\ scan.pc = "walk"
    /\ scan.todo # {}
    /\ IF scan.canceled
       THEN /\ scan' = Ended(scan, "canceled")
            /\ \E outcome \in ScanWrites : Finally(Mem(tags_cache, cache_dirty), outcome)
       ELSE /\ \E e \in scan.todo :
                 LET files == IF e.is_file /\ reachable[e.name] /\ is_supported(e.name)
                              THEN Append(scan.files, e.name) ELSE scan.files
                 IN scan' = [scan EXCEPT !.todo = @ \ {e},
                                         !.files = files,
                                         !.canceled = Len(files) % YieldEvery = 0 /\ scan.clicked]
            /\ UNCHANGED <<disk, cache_dirty, tags_cache>>
    /\ UNCHANGED <<fileVars, alive, last, metaAt, waveAt, touched>>
    /\ UNCHANGED <<textVars, bw, folder, table, uiVars>>

\* rglob is exhausted, lines 486-494: the files are sorted, the dialog is
\* set up for the second loop (setValue processes events), the table emptied
\* (no row is left to be hidden)
WalkDone ==
    /\ scan.pc = "walk"
    /\ scan.todo = {}
    /\ scan' = [scan EXCEPT !.pc = "load",
                            !.files = sort_files(scan.files),
                            !.index = 0,
                            !.sorting_enabled = table.sorting,
                            !.canceled = scan.canceled \/ scan.clicked]
    /\ table' = Table(<<>>, FALSE, table.column)
    /\ filters' = [filters EXCEPT !.hidden = {}]
    /\ UNCHANGED <<cacheVars, textVars, bw, folder, play, walk>>

\* LoadRow with a cancellation that puts back the rows of before the scan
LoadRowRollsBack ==
    /\ scan.pc = "load"
    /\ scan.index < Len(scan.files)
    /\ LET path == scan.files[scan.index + 1]
           out == read_tags(Mem(tags_cache, cache_dirty), path)
       IN IF scan.canceled
          THEN /\ scan' = Ended(scan, "canceled")
               /\ table' = Table(scan.before, scan.sorting_enabled, table.column)
               /\ \E outcome \in ScanWrites :
                      Finally(Mem(tags_cache, cache_dirty), outcome)
               /\ UNCHANGED <<metaAt, touched>>
          ELSE IF Raised(out.ret)
          THEN /\ scan' = Ended(scan, "raised")
               /\ table' = table
               /\ \E outcome \in ScanWrites : Finally(out.mem, outcome)
               /\ UNCHANGED <<metaAt, touched>>
          ELSE /\ scan' = [scan EXCEPT !.index = @ + 1, !.canceled = scan.clicked]
               /\ table' = [table EXCEPT !.rows = Append(@, track_row(path, out.ret.val))]
               /\ tags_cache' = out.mem.cache
               /\ cache_dirty' = out.mem.dirty
               /\ disk' = disk
               /\ metaAt' = IF out.puts THEN [metaAt EXCEPT ![path] = st_mtime_ns[path]]
                            ELSE metaAt
               /\ touched' = IF out.puts THEN [touched EXCEPT ![path] = FALSE] ELSE touched
    /\ UNCHANGED <<fileVars, alive, last, waveAt>>
    /\ UNCHANGED <<textVars, bw, folder, uiVars>>

\* one pass of the second loop, lines 495-502.  A pass that finds the flag
\* set leaves through line 504; _add_track_row inserts the row after
\* _read_tags returned, and a raise of _read_tags leaves through the
\* finally clause alone
LoadRow ==
    /\ scan.pc = "load"
    /\ scan.index < Len(scan.files)
    /\ LET path == scan.files[scan.index + 1]
           out == read_tags(Mem(tags_cache, cache_dirty), path)
       IN IF scan.canceled
          THEN /\ scan' = Ended(scan, "canceled")
               /\ table' = setSortingEnabled(table, scan.sorting_enabled)
               /\ \E outcome \in ScanWrites :
                      Finally(Mem(tags_cache, cache_dirty), outcome)
               /\ UNCHANGED <<metaAt, touched>>
          ELSE IF Raised(out.ret)
          THEN /\ scan' = Ended(scan, "raised")
               /\ table' = table
               /\ \E outcome \in ScanWrites : Finally(out.mem, outcome)
               /\ UNCHANGED <<metaAt, touched>>
          ELSE /\ scan' = [scan EXCEPT !.index = @ + 1, !.canceled = scan.clicked]
               /\ table' = [table EXCEPT !.rows = Append(@, track_row(path, out.ret.val))]
               /\ tags_cache' = out.mem.cache
               /\ cache_dirty' = out.mem.dirty
               /\ disk' = disk
               /\ metaAt' = IF out.puts THEN [metaAt EXCEPT ![path] = st_mtime_ns[path]]
                            ELSE metaAt
               /\ touched' = IF out.puts THEN [touched EXCEPT ![path] = FALSE] ELSE touched
    /\ UNCHANGED <<fileVars, alive, last, waveAt>>
    /\ UNCHANGED <<textVars, bw, folder, uiVars>>

\* the second loop is exhausted: line 504 and the finally clause
ScanFinish ==
    /\ scan.pc = "load"
    /\ scan.index = Len(scan.files)
    /\ scan' = Ended(scan, "returned")
    /\ table' = setSortingEnabled(table, scan.sorting_enabled)
    /\ \E outcome \in ScanWrites : Finally(Mem(tags_cache, cache_dirty), outcome)
    /\ UNCHANGED <<fileVars, alive, last, metaAt, waveAt, touched>>
    /\ UNCHANGED <<textVars, bw, folder, uiVars>>

\* a file is removed while the second loop runs
VanishDuringLoad == scan.pc = "load" /\ \E p \in AudioPaths : Vanish(p)

NextScan == \/ FolderChange
            \/ HeaderClick
            \/ ClickCancel
            \/ ScanStart
            \/ WalkEntry
            \/ WalkDone
            \/ LoadRow
            \/ ScanFinish
            \/ VanishDuringLoad

SpecScan == InitScan /\ [][NextScan]_vars

\* ------------------------------------------------------------------------
\* Playing a track: _play_track_for_row down to _load_waveform
\* ------------------------------------------------------------------------
TargetBars == 320

\* what the decoders make of the file that is played: readable or not, with
\* no frame, one frame or two
PlayFiles == {AudioFile(Mp3, TRUE, sf, "raises", "absent", pcm) :
                 sf \in {"ok", "raises"}, pcm \in {<<>>, <<1>>, <<0, -2>>}}

\* the cache file can be written throughout these scenarios
PlayWrites == {"written"}

InitPlay == /\ reachable = [p \in Paths |-> TRUE]
            /\ st_mtime_ns = [p \in Paths |-> 1]
            /\ content \in [Paths -> LibraryIds]
            /\ disk = DiskFile("missing", EmptyDict)
            /\ alive = TRUE
            /\ tags_cache = EmptyDict
            /\ cache_dirty = FALSE
            /\ last = Call("load_cache", NoPath, PyNone, PyDict(EmptyDict), FALSE, FALSE)
            /\ metaAt = [p \in Paths |-> 0]
            /\ waveAt = [p \in Paths |-> 0]
            /\ touched = [p \in Paths |-> FALSE]
            /\ SideIdle

\* lines 629-633, 909-917 and 962-978: the tags are read, the player and
\* the now-playing labels are set (they keep nothing of the cache), and
\* _load_waveform either shows the cached envelope and returns or opens
\* its dialog, sets the status and calls _build_waveform
PlayTrackForRow(p) ==
    /\ alive
    /\ play.pc # "build"
    /\ LET out == read_tags(Mem(tags_cache, cache_dirty), p)
           cached == get_cached_waveform(out.mem.cache, p)
       IN /\ tags_cache' = out.mem.cache
          /\ cache_dirty' = out.mem.dirty
          /\ metaAt' = IF out.puts THEN [metaAt EXCEPT ![p] = st_mtime_ns[p]] ELSE metaAt
          /\ touched' = IF out.puts THEN [touched EXCEPT ![p] = FALSE] ELSE touched
          /\ IF Raised(out.ret)
             THEN /\ play' = Play("raised", p, play.status, play.shown, "none")
                  /\ bw' = bw
             ELSE IF cached # PyNone
             THEN /\ play' = Play("returned", p, play.status, cached.val, "cached")
                  /\ bw' = bw
             ELSE /\ play' = Play("build", p, Status(TRUE, "Loading waveform..."),
                                  play.shown, "none")
                  /\ \E f \in PlayFiles :
                         bw' = Frame("call", f, TargetBars, <<>>, 1, 0, <<>>, FALSE, <<>>)
    /\ UNCHANGED <<fileVars, disk, alive, last, waveAt>>
    /\ UNCHANGED <<textVars, scanVars, filters, walk>>

\* LoadWaveformReturn without the check of line 982
LoadWaveformReturnUnchecked ==
    /\ play.pc = "build"
    /\ bw.pc = "done"
    /\ LET p == play.path
           samples == Envelope(bw.out)
           mem == store_cached_waveform(Mem(tags_cache, cache_dirty), p, samples)
           cleared == Status(FALSE, "")
       IN IF bw.out # <<>>
          THEN /\ play' = Play("returned", p, cleared, samples.val, "built")
               /\ \E outcome \in PlayWrites : Finally(mem, outcome)
               /\ waveAt' = IF reachable[p] THEN [waveAt EXCEPT ![p] = st_mtime_ns[p]]
                            ELSE waveAt
               /\ touched' = IF reachable[p] THEN [touched EXCEPT ![p] = FALSE]
                             ELSE touched
          ELSE /\ play' = Play("returned", p, cleared, <<>>, "unavailable")
               /\ UNCHANGED <<tags_cache, cache_dirty, disk, waveAt, touched>>
    /\ bw' = Frame("idle", NoFile, 1, <<>>, 1, 0, <<>>, FALSE, <<>>)
    /\ UNCHANGED <<fileVars, alive, last, metaAt>>
    /\ UNCHANGED <<textVars, scanVars, filters, walk>>

\* _build_waveform returned, lines 982-993: a cancelled load returns; else
\* the envelope goes to the widget and, if it is not empty, to the cache and
\* the cache file, and if it is empty the status says so; the finally
\* clause closes the dialog and clears the status
LoadWaveformReturn ==
    /\ play.pc = "build"
    /\ bw.pc = "done"
    /\ LET p == play.path
           samples == Envelope(bw.out)
           mem == store_cached_waveform(Mem(tags_cache, cache_dirty), p, samples)
           cleared == Status(FALSE, "")
       IN IF bw.canceled
          THEN /\ play' = Play("returned", p, cleared, play.shown, "canceled")
               /\ UNCHANGED <<tags_cache, cache_dirty, disk, waveAt, touched>>
          ELSE IF bw.out # <<>>
          THEN /\ play' = Play("returned", p, cleared, samples.val, "built")
               /\ \E outcome \in PlayWrites : Finally(mem, outcome)
               /\ waveAt' = IF reachable[p] THEN [waveAt EXCEPT ![p] = st_mtime_ns[p]]
                            ELSE waveAt
               /\ touched' = IF reachable[p] THEN [touched EXCEPT ![p] = FALSE]
                             ELSE touched
          ELSE /\ play' = Play("returned", p, cleared, <<>>, "unavailable")
               /\ UNCHANGED <<tags_cache, cache_dirty, disk, waveAt, touched>>
    /\ bw' = Frame("idle", NoFile, 1, <<>>, 1, 0, <<>>, FALSE, <<>>)
    /\ UNCHANGED <<fileVars, alive, last, metaAt>>
    /\ UNCHANGED <<textVars, scanVars, filters, walk>>

NextPlay == \/ \E p \in Paths : Touch(p)
            \/ \E p \in Paths : Vanish(p)
            \/ \E p \in Paths : Restore(p)
            \/ \E p \in Paths : PlayTrackForRow(p)
            \/ BuildStart
            \/ CancelBuild
            \/ BuildWindow
            \/ BuildFinish
            \/ LoadWaveformReturn

SpecPlay == InitPlay /\ [][NextPlay]_vars

\* ------------------------------------------------------------------------
\* The rglob loop of _load_tracks over a large folder, by numbers.  An
\* entry is either a regular file with a supported suffix or anything else
\* (line 478); the folders are those whose supported files are among the
\* first MaxLead entries rglob yields.
\* ------------------------------------------------------------------------
MaxEntries == 201

MaxLead == 2

InitWalk == /\ walk = Walk("walk", 0, 0, 0, FALSE, FALSE)
            /\ play = NoPlay
            /\ filters = NoFilters
            /\ CacheIdle
            /\ TextIdle
            /\ WaveIdle
            /\ ScanIdle

\* the user presses Cancel; the click waits until events are processed
WalkClick ==
    /\ walk.pc = "walk"
    /\ ~walk.clicked
    /\ walk' = [walk EXCEPT !.clicked = TRUE]
    /\ UNCHANGED <<cacheVars, textVars, bw, scanVars, play, filters>>

\* one pass of the loop, lines 474-481
VisitEntry(is_supported_file) ==
    /\ walk.pc = "walk"
    /\ walk.visited < MaxEntries
    /\ is_supported_file => walk.visited < MaxLead
    /\ IF walk.canceled
       THEN walk' = [walk EXCEPT !.pc = "canceled"]
       ELSE LET files == IF is_supported_file THEN walk.files + 1 ELSE walk.files
                yields == files % YieldEvery = 0
            IN walk' = [walk EXCEPT !.visited = @ + 1,
                                    !.files = files,
                                    !.unseen = IF yields THEN 0 ELSE @ + 1,
                                    !.canceled = yields /\ walk.clicked]
    /\ UNCHANGED <<cacheVars, textVars, bw, scanVars, play, filters>>

\* rglob is exhausted
WalkEnd ==
    /\ walk.pc = "walk"
    /\ walk' = [walk EXCEPT !.pc = "done"]
    /\ UNCHANGED <<cacheVars, textVars, bw, scanVars, play, filters>>

NextWalk == \/ WalkClick
            \/ \E is_supported_file \in BOOLEAN : VisitEntry(is_supported_file)
            \/ WalkEnd

SpecWalk == InitWalk /\ [][NextWalk]_vars

\* ------------------------------------------------------------------------
\* Claims
\* ------------------------------------------------------------------------
IsGet(call) == call.op \in {"get_cached_tags", "get_cached_waveform"}

Hit(call) == call.res # PyNone

IsTrimmedText(v) == /\ v.kind = "str"
                    /\ v.val # <<>>
                    /\ Strip(v.val) = v.val
                    /\ ~IsSpace(v.val[1])
                    /\ ~IsSpace(v.val[Len(v.val)])

\* C1: once the file's fingerprint differs from the one under which the
\* metadata (the waveform) was last stored, a lookup never returns a hit for
\* it again: a hit of get implies that the last put_metadata was made under
\* the file's current fingerprint, a hit of get_waveform that the last
\* put_waveform was.
C1_WholeEntryInvalidation ==
    \A p \in Paths :
        /\ (last.op = "get_cached_tags" /\ last.path = p /\ Hit(last) /\ metaAt[p] # 0)
               => metaAt[p] = st_mtime_ns[p]
        /\ (last.op = "get_cached_waveform" /\ last.path = p /\ Hit(last) /\ waveAt[p] # 0)
               => waveAt[p] = st_mtime_ns[p]

\* C2: after a put_metadata, once the file was modified and no put took
\* effect since, get returns a miss; get returns the same miss (None) when
\* the cache has no entry for the path.
C2_InvalidationOnTouch ==
    \A p \in Paths :
        (last.op = "get_cached_tags" /\ last.path = p) =>
            /\ (metaAt[p] # 0 /\ touched[p]) => last.res = PyNone
            /\ cache_key(p) \notin DOMAIN tags_cache => last.res = PyNone

C2_Witness ==
    \E p \in Paths :
        /\ last.op = "get_cached_tags" /\ last.path = p
        /\ metaAt[p] # 0 /\ touched[p]
        /\ cache_key(p) \in DOMAIN tags_cache
        /\ tags_cache[cache_key(p)].val.artist # PyNone
        /\ reachable[p]
        /\ last.res = PyNone

\* C3: a get that directly follows put_metadata(path, m), the file readable
\* and unmodified, returns the six text fields of m and the thumbnail of
\* m's cover.
ThumbnailOf(cover) == IF IsImage(cover) THEN Thumbnail(cover) ELSE PyNone

C3_MetadataRoundTrip ==
    [][(/\ last.op = "store_cached_tags"
        /\ last'.op = "get_cached_tags"
        /\ last'.path = last.path
        /\ reachable[last.path])
       => /\ last'.res.kind = "dict"
          /\ \A f \in TextFields : last'.res.val[f] = last.arg.val[f]
          /\ last'.res.val.cover_data = ThumbnailOf(last.arg.val.cover_data)]_vars

\* C4: a get or get_waveform changes neither the in-memory cache nor the
\* dirty flag, and returns what the directly preceding call of the same
\* lookup on the same path returned.
C4_IdempotentReads ==
    [][(IsGet(last') /\ last' # last)
       => /\ tags_cache' = tags_cache
          /\ cache_dirty' = cache_dirty
          /\ (last.op = last'.op /\ last.path = last'.path) => last'.res = last.res]_vars

C4_Witness ==
    /\ last.op = "get_cached_tags"
    /\ last.tick
    /\ Hit(last)
    /\ cache_dirty

\* C5: a flush with the dirty flag clear writes nothing and leaves the durable
\* store, the cache and the flag as they are; so does a flush that directly
\* follows a successful one.
C5_FlushOnlyWhenDirty ==
    [][(last'.op = "save_cache" /\ last' # last)
       => /\ ~cache_dirty => /\ ~last'.wrote
                             /\ disk' = disk
                             /\ ~cache_dirty'
                             /\ tags_cache' = tags_cache
          /\ (last.op = "save_cache" /\ last.arg = PyStr(<<"written">>))
                 => (~last'.wrote /\ disk' = disk)]_vars

C5_Witness ==
    /\ last.op = "save_cache"
    /\ last.tick
    /\ ~last.wrote
    /\ ~cache_dirty
    /\ disk.kind = "object"
    /\ DOMAIN disk.data # {}

\* C6: a flush whose write fails raises nothing, leaves the in-memory cache
\* unchanged and the dirty flag set; a flush clears the flag only when its
\* write succeeded, and the durable store then holds the full in-memory cache.
C6_PersistFailure ==
    [][(last'.op = "save_cache" /\ last' # last)
       => /\ ~Raised(last'.res)
          /\ tags_cache' = tags_cache
          /\ (last'.wrote /\ last'.arg # PyStr(<<"written">>)) => cache_dirty'
          /\ (cache_dirty /\ ~cache_dirty')
                 => /\ last'.arg = PyStr(<<"written">>)
                    /\ disk'.kind = "object"
                    /\ JsonLoads(disk'.data) = tags_cache']_vars

C6_Witness ==
    /\ last.op = "save_cache"
    /\ last.tick
    /\ last.wrote
    /\ last.arg = PyStr(<<"written">>)
    /\ ~cache_dirty
    /\ tags_cache # EmptyDict
    /\ JsonLoads(disk.data) = tags_cache

\* C7: load returns without raising, with the empty mapping for a cache file
\* that is missing, unreadable, not decodable text, not JSON or not a JSON
\* object; after an empty load every get is a miss.
C7_LoadNeverCrashes ==
    /\ last.op = "load_cache" =>
           /\ ~Raised(last.res)
           /\ disk.kind # "object" => last.res = PyDict(EmptyDict)
    /\ (IsGet(last) /\ tags_cache = EmptyDict) => last.res = PyNone

\* C8: extract returns a metadata record for every file, whatever the
\* outcome of opening it; it never raises.
C8_ExtractNeverRaises ==
    last.op = "read_tags" => last.res.kind = "dict"

\* C9: every text field of a record returned by extract is None or a
\* non-empty string without leading or trailing whitespace.
C9_TextFieldsTrimmed ==
    (last.op = "read_tags" /\ last.res.kind = "dict") =>
        \A f \in TextFields :
            last.res.val[f] = PyNone \/ IsTrimmedText(last.res.val[f])

InUnit(v) == v.den > 0 /\ 0 <= v.num /\ v.num <= v.den

IsOne(v) == v.den > 0 /\ v.num = v.den

IsZero(v) == v.den > 0 /\ v.num = 0

Decoded == read_audio_samples(bw.file) # PyNone

\* C11  Waveform length bound: a build that is not cancelled returns at most
\* target_bars values, and at least one value when the signal has at least
\* target_bars frames.
C11_LengthBound ==
    (bw.pc = "done" /\ ~bw.canceled /\ Decoded) =>
        /\ Len(bw.out) <= bw.target_bars
        /\ Len(bw.file.pcm) >= bw.target_bars => Len(bw.out) > 0

\* C12  Waveform normalization: every value of a non-empty returned envelope
\* is in [0, 1]; a signal with a non-zero frame gives an envelope whose
\* maximum is exactly 1; an all-silent signal gives the unnormalized list
\* of zeros, and no value is a division by zero.
C12_Normalized ==
    (bw.pc = "done" /\ bw.out # <<>>) =>
        /\ \A i \in 1..Len(bw.out) : InUnit(bw.out[i])
        /\ (\E k \in 1..Len(bw.mono) : bw.mono[k] # 0)
               => \E i \in 1..Len(bw.out) : IsOne(bw.out[i])
        /\ (\A k \in 1..Len(bw.mono) : bw.mono[k] = 0)
               => /\ bw.out = bw.samples
                  /\ \A i \in 1..Len(bw.out) : IsZero(bw.out[i])

C12_Witness ==
    /\ bw.pc = "done"
    /\ \E i \in 1..Len(bw.out) : IsOne(bw.out[i])
    /\ \E i \in 1..Len(bw.out) : 0 < bw.out[i].num /\ bw.out[i].num < bw.out[i].den

\* C13  Cancellation of build: a pass of the loop that finds the flag set
\* returns the empty envelope and computes no window, however many windows
\* were computed before.
C13_CancelReturnsEmpty ==
    [][(bw.pc = "loop" /\ bw.canceled /\ bw.start < Len(bw.mono) /\ bw' # bw)
          => (bw'.pc = "done" /\ bw'.out = <<>> /\ bw'.samples = bw.samples)]_vars

C13_Witness ==
    /\ bw.pc = "done"
    /\ bw.canceled
    /\ bw.out = <<>>
    /\ Len(bw.samples) >= 1
    /\ bw.start < Len(bw.mono)

\* decoder (a), (b), (c) does not decode the file on this installation
SoundfileFails(f) == ~f.numpy \/ f.sf # "ok"

WaveModuleFails(f) ==
    ~f.numpy \/ Lower(f.suffix) # <<".", "w", "a", "v">> \/ f.wav # "ok"

PydubFails(f) == ~f.numpy \/ f.pydub # "ok"

\* C18  Sample acquisition order: a build that is not cancelled returns the
\* empty envelope only when all three decoders fail or the decoded signal
\* has no frames; a later decoder is tried whenever every earlier one failed.
C18_DecoderFallback ==
    (bw.pc = "done" /\ ~bw.canceled /\ bw.out = <<>>) =>
        \/ SoundfileFails(bw.file) /\ WaveModuleFails(bw.file) /\ PydubFails(bw.file)
        \/ Len(bw.file.pcm) = 0

\* the text a value is parsed from
TextOf(value) == IF value.kind = "str" THEN value.val ELSE <<>>

\* s[a..b] is a word of the text: a maximal run of word characters
IsRun(s, a, b) ==
    /\ a <= b
    /\ \A k \in a..b : IsWord(s[k])
    /\ ~WordAt(s, a - 1)
    /\ ~WordAt(s, b + 1)

Modes == {"A", "B", "a", "b"}

\* the decimal texts of the numbers 1..12
NumberTexts == {Digits(n) : n \in 1..12}

NumberOf(text) == CHOOSE n \in 1..12 : Digits(n) = text

Runs(s) == {r \in (1..Len(s)) \X (1..Len(s)) : IsRun(s, r[1], r[2])}

\* <<number text, letter>> of every word made of a number in 1..12 and a
\* letter that names a mode
JoinedTokens(s) ==
    {<<SubSeq(s, r[1], r[2] - 1), s[r[2]]>> :
        r \in {q \in Runs(s) : /\ SubSeq(s, q[1], q[2] - 1) \in NumberTexts
                               /\ s[q[2]] \in Modes}}

\* the same for a word that is such a number, whitespace, and a word that is
\* such a letter
SplitTokens(s) ==
    {<<SubSeq(s, t[1][1], t[1][2]), s[t[2]]>> :
        t \in {u \in Runs(s) \X (1..Len(s)) :
                  /\ SubSeq(s, u[1][1], u[1][2]) \in NumberTexts
                  /\ u[2] > u[1][2] + 1
                  /\ \A k \in (u[1][2] + 1)..(u[2] - 1) : IsSpace(s[k])
                  /\ IsRun(s, u[2], u[2])
                  /\ s[u[2]] \in Modes}}

PairOf(token) == PyTuple(<<PyInt(NumberOf(token[1])), PyStr(Upper(<<token[2]>>))>>)

\* C14 as stated  Camelot parsing: a pair is returned exactly when the text
\* has a word made of a number in 1..12 directly followed by A or B in
\* either case, and it is the pair of such a word with the mode in upper case.
C14_TokenExactly ==
    txPc = "returned" =>
        LET tokens == JoinedTokens(TextOf(txIn))
        IN /\ txOut # PyNone <=> tokens # {}
           /\ txOut # PyNone => \E t \in tokens : txOut = PairOf(t)

\* C14  Camelot parsing: a pair is returned exactly when the text has a
\* word-bounded number in 1..12 followed, directly or after whitespace, by a
\* word-bounded A or B in either case; the pair is that of such an
\* occurrence, its number in 1..12 and its mode A or B in upper case.
C14_CamelotParsing ==
    txPc = "returned" =>
        LET tokens == JoinedTokens(TextOf(txIn)) \cup SplitTokens(TextOf(txIn))
        IN /\ txOut # PyNone <=> tokens # {}
           /\ txOut # PyNone =>
                  \E t \in tokens :
                      /\ txOut = PairOf(t)
                      /\ txOut.val[1].val[1] \in 1..12
                      /\ txOut.val[2].val \in {<<"A">>, <<"B">>}

C14_Witness ==
    /\ txPc = "returned"
    /\ txIn = PyStr(<<"x", " ", "1", "b">>)
    /\ txOut = PyTuple(<<PyInt(1), PyStr(<<"B">>)>>)

\* the name ends with one of the six extensions, whatever the letter case
HasAudioExtension(name) ==
    \E x \in supported :
        /\ Len(x) < Len(name)
        /\ Lower(SubSeq(name, Len(name) - Len(x) + 1, Len(name))) = x

\* the regular files with such an extension that were under the root
Expected == {p \in scan.regular : HasAudioExtension(p)}

RowsOf(p) == {i \in 1..Len(table.rows) : table.rows[i].path = p}

ExactlyExpected ==
    /\ \A p \in Expected : Cardinality(RowsOf(p)) = 1
    /\ \A i \in 1..Len(table.rows) : table.rows[i].path \in Expected

InNameOrder(i, j) == ~SeqLess(Lower(table.rows[j].path), Lower(table.rows[i].path))

\* C15 as stated  Scan result: when a scan has returned without being
\* cancelled, the table has exactly one row per regular file with a
\* supported extension, no other row, and the rows are in non-decreasing
\* order of lower-cased file name.
C15_RowsInNameOrder ==
    scan.pc = "returned" =>
        /\ ExactlyExpected
        /\ \A i, j \in 1..Len(table.rows) : i < j => InNameOrder(i, j)

\* C15  Scan result: when a scan has returned without being cancelled, the
\* table has exactly one row per regular file with a supported extension
\* and no other row; the rows are in non-decreasing order of lower-cased
\* file name unless sorting is enabled with ARTIST as the sort column, and
\* then they are in non-decreasing order of artist text, rows of equal
\* artist in order of lower-cased file name.
C15_ScanResult ==
    scan.pc = "returned" =>
        /\ ExactlyExpected
        /\ \A i, j \in 1..Len(table.rows) :
               i < j =>
                   IF table.sorting /\ table.column = "artist"
                   THEN /\ ~SeqLess(table.rows[j].artist, table.rows[i].artist)
                        /\ table.rows[i].artist = table.rows[j].artist => InNameOrder(i, j)
                   ELSE InNameOrder(i, j)

C15_Witness ==
    /\ scan.pc = "returned"
    /\ DirEntry(c_txt, TRUE) \in folder
    /\ DirEntry(d_ogg, FALSE) \in folder
    /\ Len(table.rows) = 1
    /\ table.rows[1].path = a_WAV
    /\ \E i \in 1..Len(scan.before) : scan.before[i].path = B_mp3

\* neither view of the file can be opened: it vanished or is unreadable
Unopenable(p) == OpenEasy(p).open = "raises" /\ OpenFull(p).open = "raises"

\* C16  Filesystem failure during a scan: the pass of the loading loop over
\* a file that has vanished or cannot be read adds no row and goes on to the
\* next file.
C16_UnreadableSkipped ==
    [][(/\ scan.pc = "load"
        /\ scan.index < Len(scan.files)
        /\ ~scan.canceled
        /\ Unopenable(scan.files[scan.index + 1])
        /\ scan'.index # scan.index \/ scan'.pc # "load")
          => (/\ scan'.pc = "load"
              /\ scan'.index = scan.index + 1
              /\ table'.rows = table.rows)]_vars

\* C17  Strategy independence in extract: a read of the tags that finds no
\* cached record never raises, whatever the easy view does; when the raw
\* view opens, its cover is in the returned record, and so is its comment
\* when the easy view gave none.
C17_StrategyIndependence ==
    [][\A p \in DOMAIN content :
          (/\ get_cached_tags(tags_cache, p) = PyNone
           /\ last' # last
           /\ last'.op = "read_tags"
           /\ last'.path = p)
          => LET audio == OpenEasy(p)
                 audio_full == OpenFull(p)
                 comment == IF Opened(audio)
                            THEN first_tag(audio, <<"comment", "comments">>)
                            ELSE PyNone
             IN /\ ~Raised(last'.res)
                /\ Opened(audio_full)
                       => last'.res.val.cover_data = extract_cover(audio_full)
                /\ (Opened(audio_full) /\ ~Truthy(comment))
                       => last'.res.val.comments = extract_comment(audio_full)]_vars

\* ------------------------------------------------------------------------
\* The sources of a cover, one by one, in the order of the documentation:
\* what each of them yields on its own (None when it yields no data)
\* ------------------------------------------------------------------------
IsData(v) == v.kind \in {"bytes", "bytearray"}

BlockYield(tags, key) ==
    LET value == TagsGet(tags, key)
    IN IF ~TagsHas(tags, key) THEN PyNone
       ELSE IF IsSeqKind(value) /\ value.val # <<>> THEN coerce_bytes(value.val[1])
       ELSE IF value.kind = "bytes" THEN value
       ELSE PyNone

CoverSources(audio) ==
    <<IF audio.getall /\ ApicFrames(audio.tags) # <<>>
      THEN ApicFrames(audio.tags)[1].v.val[1] ELSE PyNone,
      cover_by_frame(audio.tags),
      IF audio.pictures # <<>> THEN audio.pictures[1] ELSE PyNone,
      IF Truthy(TagsGet(audio.tags, "covr"))
      THEN cover_from_covr(TagsGet(audio.tags, "covr")) ELSE PyNone,
      BlockYield(audio.tags, "metadata_block_picture"),
      BlockYield(audio.tags, "METADATA_BLOCK_PICTURE")>>

RECURSIVE FirstData(_)
FirstData(yields) == IF yields = <<>> THEN PyNone
                     ELSE IF IsData(Head(yields)) THEN Head(yields)
                     ELSE FirstData(Tail(yields))

\* C19: the cover returned for a container with tags is the data of the
\* first source, in the documented order, that yields data; a source that
\* is present without data does not stop the search, so the result is None
\* only when no source yields data.
C19_FirstSourceWithData ==
    (/\ txPc = "returned"
     /\ txIn.open = "ok"
     /\ txIn.tagsAttr = "dict")
        => txOut = FirstData(CoverSources(txIn))

\* ------------------------------------------------------------------------
\* The thumbnail of an entry
\* ------------------------------------------------------------------------
StoredCover(cache, p) == DictGet(cache, cache_key(p)).val.cover_data

HasThumbnail(cache, p) ==
    /\ get_cached_tags(cache, p) # PyNone
    /\ get_cached_tags(cache, p).val.cover_data.kind = "bytes"

\* C20: a read of the tags of a file that hits an entry holding a thumbnail
\* leaves the stored cover_data of the entry unchanged and hands nothing to
\* the thumbnail encoder (a stored thumbnail is never encoded again).
C20_ThumbnailDerivedOnce ==
    [][\A p \in DOMAIN content :
          (/\ HasThumbnail(tags_cache, p)
           /\ last' # last
           /\ last'.op = "read_tags"
           /\ last'.path = p)
          => /\ StoredCover(tags_cache', p) = StoredCover(tags_cache, p)
             /\ last'.arg = PyList(<<>>)]_vars

\* ------------------------------------------------------------------------
\* Cancelled scans
\* ------------------------------------------------------------------------
Cancelling == Running /\ scan'.pc = "canceled"

KeepsRows == \A i \in 1..Len(table.rows) :
                 \E j \in 1..Len(table'.rows) : table'.rows[j] = table.rows[i]

\* C21  Cancelled scan keeps rows: the step in which a scan observes the
\* cancellation and returns keeps every row the table holds at that moment;
\* observed in the enumeration loop it leaves the table as it was when the
\* scan started, observed in the loading loop it leaves one row for each
\* file loaded so far.
C21_CancelledScanKeepsRows ==
    [][Cancelling =>
          /\ KeepsRows
          /\ scan.pc = "walk" => (table' = table /\ table'.rows = scan.before)
          /\ scan.pc = "load" =>
                 /\ Len(table'.rows) = scan.index
                 /\ \A k \in 1..scan.index :
                        \E j \in 1..Len(table'.rows) :
                            table'.rows[j].path = scan.files[k]]_vars

\* a scan over a folder without audio files was cancelled in the enumeration
\* loop: the two rows of the scan before it are still there
C21_Witness ==
    /\ scan.pc = "canceled"
    /\ folder = {DirEntry(c_txt, TRUE), DirEntry(d_ogg, FALSE)}
    /\ Len(table.rows) = 2

\* ------------------------------------------------------------------------
\* The waveform status
\* ------------------------------------------------------------------------
\* C22  Unavailable status: when _load_waveform returns after a build that
\* was not cancelled and gave an empty envelope, the waveform status is
\* visible with the text "Waveform unavailable"; after a cancelled load
\* the status does not show that text.
C22_UnavailableStatus ==
    /\ (play.pc = "returned" /\ play.outcome = "unavailable")
           => play.status = Status(TRUE, "Waveform unavailable")
    /\ (play.pc = "returned" /\ play.outcome = "canceled")
           => play.status.text # "Waveform unavailable"

\* ------------------------------------------------------------------------
\* Yielding during the directory walk
\* ------------------------------------------------------------------------
\* C23  Interruptible directory walk: whatever the mix of entries, the
\* enumeration loop never visits more entries in a row without processing
\* events than the period of its yield (YieldEvery), so a pending Cancel is
\* observed within that many entries.
C23_BoundedYield == walk.unseen <= YieldEvery

\* ------------------------------------------------------------------------
\* Files that cannot be reached
\* ------------------------------------------------------------------------
IsPut(call) == call.op \in {"store_cached_tags", "store_cached_waveform"}

\* C24  Unreachable file and the cache: while the modification time of a
\* file cannot be read, a get of its metadata or waveform is a miss even if
\* an entry exists, and a put of either returns without raising and leaves
\* the cache and the dirty flag as they were.
C24_UnreachableFile ==
    [][\A p \in DOMAIN reachable :
          (/\ ~reachable[p]
           /\ last' # last
           /\ last'.path = p)
          => /\ IsGet(last') => last'.res = PyNone
             /\ IsPut(last') => /\ ~Raised(last'.res)
                                /\ tags_cache' = tags_cache
                                /\ cache_dirty' = cache_dirty]_vars

\* a put of a waveform for a file that vanished after its entry was stored
\* and flushed
C24_Witness ==
    /\ \E p \in DOMAIN reachable :
           /\ ~reachable[p]
           /\ last.path = p
           /\ DictGet(tags_cache, cache_key(p)).kind = "dict"
    /\ last.op = "store_cached_waveform"
    /\ ~cache_dirty

\* ------------------------------------------------------------------------
\* The dirty flag
\* ------------------------------------------------------------------------
Loads(call) == call.op = "load_cache"

GoodFlush(call) ==
    call.op = "save_cache" /\ call.wrote /\ call.arg = PyStr(<<"written">>)

\* C25  Dirty-flag soundness: every step that changes the in-memory cache
\* is a load or leaves the flag set; the flag is cleared only by a flush
\* whose write succeeded (or by the load of a new start); and whenever the
\* program runs with the flag clear, the cache is what a load of the cache
\* file gives.
C25_DirtyFlagSound ==
    [][/\ tags_cache' # tags_cache => (cache_dirty' \/ Loads(last'))
       /\ (cache_dirty /\ ~cache_dirty') => (GoodFlush(last') \/ Loads(last'))
       /\ (alive' /\ ~cache_dirty') => PyDict(tags_cache') = load_cache(disk')]_vars

\* a flush has written a cache with an entry and the flag is clear
C25_Witness ==
    /\ GoodFlush(last)
    /\ ~cache_dirty
    /\ tags_cache # EmptyDict

\* ------------------------------------------------------------------------
\* Flushing at the end of an operation
\* ------------------------------------------------------------------------
\* C26  Mutations are persisted by the operation that made them: with a
\* cache file that can be written, the dirty flag is clear when
\* _play_track_for_row has returned, whether the waveform came from the
\* cache, was built, was unavailable or was cancelled.
C26_FlushedOnReturn == play.pc = "returned" => ~cache_dirty

\* ------------------------------------------------------------------------
\* Entries made by a waveform put
\* ------------------------------------------------------------------------
\* C27  Metadata hit needs a metadata put: a get of the metadata of a path
\* is a hit only if a put_metadata took effect for that path under the
\* file's current fingerprint; in particular it is a miss while no
\* put_metadata was ever made for the path.
C27_HitNeedsMetadataPut ==
    \A p \in DOMAIN metaAt :
        (last.op = "get_cached_tags" /\ last.path = p /\ Hit(last))
            => (metaAt[p] # 0 /\ metaAt[p] = st_mtime_ns[p])

\* ------------------------------------------------------------------------
\* Reads that hit
\* ------------------------------------------------------------------------
\* C28  Cache hit is read-only: a read of the tags of a file that finds the
\* entry a put_metadata made for it under its current modification time
\* changes neither the in-memory cache nor the dirty flag, whatever the
\* cached record holds.
C28_HitIsReadOnly ==
    [][\A p \in DOMAIN content :
          (/\ get_cached_tags(tags_cache, p) # PyNone
           /\ metaAt[p] = st_mtime_ns[p]
           /\ last' # last
           /\ last'.op = "read_tags"
           /\ last'.path = p)
          => /\ tags_cache' = tags_cache
             /\ cache_dirty' = cache_dirty]_vars

\* the step in which _load_waveform returns from a build
LoadReturns == play.pc = "build" /\ play'.pc = "returned"

\* no entry of the cache holds an empty waveform
NoEmptyWaveform(cache) ==
    \A k \in DOMAIN cache :
        \/ cache[k].val.waveform = PyNone
        \/ /\ cache[k].val.waveform.kind = "list"
           /\ Len(cache[k].val.waveform.val) > 0

\* C29: a waveform load writes the cache only when the build finished without
\* cancellation and returned a non-empty envelope; after a cancelled or
\* failed build the cache, the dirty flag and the cache file are unchanged;
\* no waveform in the cache is empty
C29_OnlyCompleteWaveforms ==
    [][/\ LoadReturns =>
              /\ tags_cache' # tags_cache => (~bw.canceled /\ bw.out # <<>>)
              /\ (bw.canceled \/ bw.out = <<>>) =>
                     /\ tags_cache' = tags_cache
                     /\ cache_dirty' = cache_dirty
                     /\ disk' = disk
       /\ NoEmptyWaveform(tags_cache')]_vars

\* a cancelled load has returned and the entry of the file, written by the
\* tags before the build, holds no waveform
C29_Witness ==
    /\ play.pc = "returned"
    /\ play.outcome = "canceled"
    /\ play.path \in DOMAIN tags_cache
    /\ tags_cache[play.path].val.waveform = PyNone

\* ------------------------------------------------------------------------
\* MainWindow._toggle_key_filter and MainWindow._clear_key_filter
\* ------------------------------------------------------------------------
\* two of the keys KeyWheelWidget._key_from_pos returns: the key of the ID3
\* file's comment and a key no file has
WheelKeys == {<<"7", "A">>, <<"8", "B">>}

\* lines 540-549, for a non-empty set of active keys: the rows that
\* setRowHidden hides (every row has an item in column 6, set by
\* _add_track_row)
hidden_rows(rows, active) ==
    {rows[i].path : i \in {j \in 1..Len(rows) :
                              Upper(Strip(rows[j].key)) \notin {Upper(k) : k \in active}}}

\* a click on a segment of the wheel, widgets.py lines 147-155, and the slot
\* it is connected to, lines 524-551: the wheel's selection is the set of
\* active keys (lines 533 and 558), so the click enables a key that is not
\* active and disables one that is.  The scan's dialog is modal: no click
\* reaches the wheel while a scan runs
ToggleKeyFilter(key) ==
    /\ alive
    /\ ~Running
    /\ LET enabled == key \notin filters.active
           active == IF enabled THEN filters.active \cup {key}
                     ELSE filters.active \ {key}
       IN filters' = Filters(active, IF active = {} THEN {}
                                     ELSE hidden_rows(table.rows, active))
    /\ UNCHANGED <<cacheVars, textVars, bw, scanVars, play, walk>>

\* lines 553-562
ClearKeyFilter ==
    /\ alive
    /\ ~Running
    /\ filters' = Filters({}, {})
    /\ UNCHANGED <<cacheVars, textVars, bw, scanVars, play, walk>>

\* the folder holds the two audio files
InitFilter == /\ reachable = [p \in ScanPaths |-> TRUE]
              /\ st_mtime_ns = [p \in ScanPaths |-> 1]
              /\ content \in ScanContents
              /\ disk = DiskFile("missing", EmptyDict)
              /\ alive = TRUE
              /\ tags_cache = EmptyDict
              /\ cache_dirty = FALSE
              /\ last = Call("load_cache", NoPath, PyNone, PyDict(EmptyDict), FALSE, FALSE)
              /\ metaAt = [p \in ScanPaths |-> 0]
              /\ waveAt = [p \in ScanPaths |-> 0]
              /\ touched = [p \in ScanPaths |-> FALSE]
              /\ folder = {DirEntry(B_mp3, TRUE), DirEntry(a_WAV, TRUE)}
              /\ table = Table(<<>>, TRUE, "cover")
              /\ scan = NoScan
              /\ TextIdle
              /\ WaveIdle
              /\ UiIdle

NextFilter == \/ \E key \in WheelKeys : ToggleKeyFilter(key)
              \/ ClearKeyFilter
              \/ ScanStart
              \/ WalkEntry
              \/ WalkDone
              \/ LoadRow
              \/ ScanFinish

SpecFilter == InitFilter /\ [][NextFilter]_vars

\* the row of the table is hidden
IsHidden(row) == row.path \in filters.hidden

\* C30: when no scan runs, a row is hidden if and only if the set of active
\* key filters is non-empty and the row's normalized key is not in it
C30_KeyFilterInvariant ==
    ~Running =>
        \A i \in 1..Len(table.rows) :
            IsHidden(table.rows[i])
                <=> (filters.active # {} /\ table.rows[i].key \notin filters.active)

============================================================================
